---- MODULE Spec2Model ----
(***************************************************************************)
(* The team store of the workflow engine together with the two execution   *)
(* strategies that react to task status changes:                           *)
(*   - SequentialExecutionStrategy                                         *)
(*       (src/src/managers/executionStrategies/sequentialExecutionStrategy.js) *)
(*   - HierarchyExecutionStrategy (src/unnamed/part_001, lines 83-208)     *)
(* both built on WorkflowExecutionStrategy                                 *)
(*       (src/src/managers/executionStrategies/workflowExecutionStrategy.js) *)
(* and driven by the store of src/src/stores/teamStore.js.                 *)
(*                                                                         *)
(* JavaScript runs one synchronous segment at a time, so one action of the *)
(* model is one such segment: a store commit together with every reaction  *)
(* it triggers (reactions run synchronously inside the commit, and may     *)
(* commit again).  Task objects are modelled with their identity: a commit *)
(* replaces the object of the task it updates, workOnTask writes the       *)
(* status DOING into the object it was handed, and a reaction reads the    *)
(* array of objects it was called with (allTasks), which may be stale.     *)
(*                                                                         *)
(* Spec covers one run of a team: start is called once; afterwards the     *)
(* environment gives feedback and the running agents report completion.    *)
(* StoreSpec covers the store's mutators called in any order on small      *)
(* teams: start (again), provideFeedback, validateTask, addAgents,         *)
(* addTasks, together with the completions of the running agents.          *)
(***************************************************************************)
EXTENDS Integers, Sequences, FiniteSets, TLC

VARIABLES
    team,                       \* the declared team: tasks[] with dependsOn, agent, flags
    status,                     \* status[t]: status of tasks[t] in the store
    teamWorkflowStatus,         \* the store's teamWorkflowStatus
    workflowExecutionStrategy,  \* the store's strategy: "none" until startWorkflow
    running,                    \* running[t]: executions of task t in flight (workOnTask awaiting its agent)
    taskQueue,                  \* sequential strategy: tasks waiting in the fastq queue
    worker,                     \* sequential strategy: task held by the queue's single worker, 0 when idle
    workflowLogs,               \* the store's workflowLogs, each entry by its type, task and status
    workflowResult,             \* the store's workflowResult: 0 for null, else the task whose result it is
    inputs,                     \* the store's inputs
    agents,                     \* the store's agents array, by agent id
    feedbackHistory,            \* feedbackHistory[t]: the feedback records of task t
    orphaned,                   \* orphaned[t]: executions of t in flight that were started before the last start
    feedbackCount,              \* number of provideFeedback calls so far
    startCount,                 \* number of startWorkflow calls so far
    addCount,                   \* number of addAgents / addTasks calls so far
    validateCount,              \* number of validateTask calls so far
    everDone,                   \* history: tasks that were DONE at least once since start
    depsDoneAtDispatch,         \* history: at its last dispatch, were all dependencies of t DONE in the store
    revising,                   \* history: tasks given feedback that have not been DONE again since
    clock,                      \* the next reading of Date.now()
    updateCount,                \* number of updateTaskStatus / updateStatusOfMultipleTasks calls so far
    events,                     \* history: what the strategy did in the last segment that ran store code
    last                        \* history: the last operation, its task and the statuses before it

vars == <<team, status, teamWorkflowStatus, workflowExecutionStrategy, running,
          taskQueue, worker, workflowLogs, workflowResult, inputs, agents,
          feedbackHistory, orphaned, feedbackCount, startCount, addCount,
          validateCount, everDone, depsDoneAtDispatch, revising, clock,
          updateCount, events, last>>

(***************************************************************************)
(* Bounds of the model.                                                    *)
(***************************************************************************)
MaxFeedback == 2
MaxCalls == 3       \* StoreSpec: calls of the store's mutators
MaxLogs == 4        \* StatsSpec: entries of workflowLogs
MaxClock == 3       \* StatsSpec: the last reading of the clock

(***************************************************************************)
(* TASK_STATUS_enum values used by the strategies.                         *)
(***************************************************************************)
TODO == "TODO"
DOING == "DOING"
BLOCKED == "BLOCKED"
REVISE == "REVISE"
DONE == "DONE"
AWAITING_VALIDATION == "AWAITING_VALIDATION"
VALIDATED == "VALIDATED"
STALE == "STALE"    \* placeholder status of an object no longer in the store

(***************************************************************************)
(* The teams.  Tasks are named by their index in tasks[] (declaration      *)
(* order); dependsOn[t] is the set of indices task t depends on.           *)
(***************************************************************************)
DefaultMaxConcurrency == 5

DiamondTeam ==
    [dependsOn |-> <<{}, {1}, {1}, {2, 3}>>,
     agent |-> <<1, 2, 3, 1>>,
     allowParallelExecution |-> <<FALSE, FALSE, FALSE, FALSE>>,
     externalValidationRequired |-> <<FALSE, FALSE, FALSE, FALSE>>,
     isDeliverable |-> <<FALSE, FALSE, FALSE, FALSE>>,
     maxConcurrency |-> 2]

ChainTeam ==
    [dependsOn |-> <<{}, {1}, {2}, {}>>,
     agent |-> <<1, 2, 3, 1>>,
     allowParallelExecution |-> <<FALSE, FALSE, FALSE, FALSE>>,
     externalValidationRequired |-> <<FALSE, FALSE, FALSE, FALSE>>,
     isDeliverable |-> <<FALSE, TRUE, TRUE, FALSE>>,
     maxConcurrency |-> DefaultMaxConcurrency]

FanOutTeam ==
    [dependsOn |-> <<{}, {1}, {1}, {1}>>,
     agent |-> <<1, 2, 2, 3>>,
     allowParallelExecution |-> <<FALSE, FALSE, FALSE, FALSE>>,
     externalValidationRequired |-> <<FALSE, FALSE, FALSE, FALSE>>,
     isDeliverable |-> <<TRUE, FALSE, FALSE, FALSE>>,
     maxConcurrency |-> 2]

ParallelTeam ==
    [dependsOn |-> <<{}, {1}, {1}, {1}>>,
     agent |-> <<1, 2, 2, 2>>,
     allowParallelExecution |-> <<FALSE, TRUE, TRUE, FALSE>>,
     externalValidationRequired |-> <<FALSE, FALSE, FALSE, FALSE>>,
     isDeliverable |-> <<FALSE, FALSE, FALSE, TRUE>>,
     maxConcurrency |-> DefaultMaxConcurrency]

LinearTeam ==
    [dependsOn |-> <<{}, {}, {}, {}>>,
     agent |-> <<1, 2, 1, 2>>,
     allowParallelExecution |-> <<FALSE, FALSE, FALSE, FALSE>>,
     externalValidationRequired |-> <<FALSE, FALSE, FALSE, FALSE>>,
     isDeliverable |-> <<FALSE, TRUE, FALSE, FALSE>>,
     maxConcurrency |-> DefaultMaxConcurrency]

\* tasks 1 and 2 depend on each other; task 3 is a root, task 4 follows it
CycleTeam ==
    [dependsOn |-> <<{2}, {1}, {}, {3}>>,
     agent |-> <<1, 2, 3, 1>>,
     allowParallelExecution |-> <<FALSE, FALSE, FALSE, FALSE>>,
     externalValidationRequired |-> <<FALSE, FALSE, FALSE, FALSE>>,
     isDeliverable |-> <<FALSE, FALSE, FALSE, FALSE>>,
     maxConcurrency |-> DefaultMaxConcurrency]

Teams == {DiamondTeam, ChainTeam, FanOutTeam, ParallelTeam, LinearTeam, CycleTeam}

\* the small teams of StoreSpec: two tasks in sequence, the first one
\* validated by a human; two tasks, the second depending on the first
PairTeam ==
    [dependsOn |-> <<{}, {}>>,
     agent |-> <<1, 2>>,
     allowParallelExecution |-> <<FALSE, FALSE>>,
     externalValidationRequired |-> <<TRUE, FALSE>>,
     isDeliverable |-> <<TRUE, FALSE>>,
     maxConcurrency |-> DefaultMaxConcurrency]

StepTeam ==
    [dependsOn |-> <<{}, {1}>>,
     agent |-> <<1, 2>>,
     allowParallelExecution |-> <<FALSE, FALSE>>,
     externalValidationRequired |-> <<FALSE, FALSE>>,
     isDeliverable |-> <<FALSE, FALSE>>,
     maxConcurrency |-> DefaultMaxConcurrency]

StoreTeams == {PairTeam, StepTeam}

\* the inputs a caller gives to startWorkflow (NoInputs: none given), the
\* feedback contents, an id that names no task, the task addTasks adds
NoInputs == "none"
Inputs == {"topic", "city"}
Contents == {"shorter", "sources"}
UnknownId == 0
AddedTask ==
    [dependsOn |-> {}, agent |-> 1, allowParallelExecution |-> FALSE,
     externalValidationRequired |-> FALSE, isDeliverable |-> FALSE]
AddedAgent == 9

\* FEEDBACK_STATUS_enum and WORKFLOW_STATUS_enum values, log types
PENDING == "PENDING"
PROCESSED == "PROCESSED"
INITIAL == "INITIAL"
RUNNING == "RUNNING"
FINISHED == "FINISHED"
ERRORED == "ERRORED"
STOPPED == "STOPPED"
WorkflowStatusUpdate == "WorkflowStatusUpdate"
TaskStatusUpdate == "TaskStatusUpdate"
AgentStatusUpdate == "AgentStatusUpdate"
CYCLE_IN_DEPENDENCIES == "CYCLE_IN_DEPENDENCIES"

N == Len(team.dependsOn)
Tasks == 1..N

(***************************************************************************)
(* The world inside one synchronous segment.                               *)
(*   heap    : the task objects allocated so far, by their status          *)
(*   obj[t]  : the object of task t in the store's tasks array             *)
(*   strategy, running, queue, worker, depsOK : as the variables           *)
(*   logs, tws, result : workflowLogs, teamWorkflowStatus, workflowResult  *)
(*   now     : the next reading of Date.now()                              *)
(*   events  : the pushes, _executeTask calls and ready-task filters so far *)
(*   cur     : the call of execute() that is running, and whether it has   *)
(*             reached its final dispatch loop                             *)
(*   nextRid : the number the next call of execute() gets                  *)
(* A snapshot of the tasks array (allTasks) is a function t -> object.     *)
(***************************************************************************)
StaleRef == N + 1

\* no execute() is running: the code runs in the caller or in the queue's worker
NoReaction == [rid |-> 0, dispatch |-> FALSE]

LoadWorld ==
    [heap |-> [i \in 1..(N + 1) |-> IF i <= N THEN status[i] ELSE STALE],
     obj |-> [t \in Tasks |-> t],
     strategy |-> workflowExecutionStrategy,
     running |-> running,
     queue |-> [i \in 1..Len(taskQueue) |->
                  [task |-> taskQueue[i].task,
                   ref |-> IF taskQueue[i].current THEN taskQueue[i].task ELSE StaleRef]],
     worker |-> worker,
     depsOK |-> depsDoneAtDispatch,
     logs |-> workflowLogs,
     tws |-> teamWorkflowStatus,
     result |-> workflowResult,
     now |-> clock,
     events |-> <<>>,
     cur |-> NoReaction,
     nextRid |-> 1]

StoreStatus(w, t) == w.heap[w.obj[t]]

StatusOf(w) == [t \in Tasks |-> StoreStatus(w, t)]

QueueOf(w) ==
    [i \in 1..Len(w.queue) |->
        [task |-> w.queue[i].task,
         current |-> w.queue[i].ref = w.obj[w.queue[i].task]]]

\* what an observer of the store sees of the world
Observe(w) ==
    [status |-> StatusOf(w), logs |-> w.logs, tws |-> w.tws, result |-> w.result]

\* a workflowLogs entry
Log(type, t, st) ==
    [logType |-> type, task |-> t, status |-> st, error |-> "", result |-> 0,
     agentStatus |-> "", inputTokens |-> 0, outputTokens |-> 0, timestamp |-> 0]

\* Statement sequencing: F applied to the world v, with v computed once.
Then(v, F(_)) == CHOOSE r \in {F(x) : x \in {v}} : TRUE

\* Date.now() is read: time has passed since the reading before
Tick(w) == [w EXCEPT !.now = @ + 1]

\* a log entry is built with timestamp Date.now() and appended to workflowLogs
Emit(w0, entry) ==
    Then(w0, LAMBDA w : [w EXCEPT !.logs = Append(@, [entry EXCEPT !.timestamp = w.now]),
                                  !.now = @ + 1])

(***************************************************************************)
(* WorkflowExecutionStrategy (managers): _isAgentBusy, _executeTask, and   *)
(* the store's workOnTask up to the point where it awaits the agent.       *)
(***************************************************************************)
\* _isAgentBusy(agent, tasks): some task of that agent is DOING in the store
IsAgentBusy(w, a) ==
    \E u \in Tasks : team.agent[u] = a /\ StoreStatus(w, u) = DOING

\* workOnTask(agent, task): task.status = DOING is written into the object
\* that was handed in (no commit), then the agent is awaited
WorkOnTask(w, t, ref) ==
    Emit([w EXCEPT !.heap[ref] = DOING, !.running[t] = @ + 1],
         Log(TaskStatusUpdate, t, DOING))

\* _isTaskAgentBusy(currentTask, tasks) of the newer base class: some other
\* task of the task's agent is DOING in the store
IsTaskAgentBusy(w, t) ==
    \E u \in Tasks \ {t} : team.agent[u] = team.agent[t] /\ StoreStatus(w, u) = DOING

\* _executeTask(task): picks the agent or a clone of it, then workOnTask.
\* The event keeps what the call found: the agent chosen, whether the task
\* was already executing, and whether writing DOING into the object changed
\* the task's status in the store.
ExecuteTask(w0, t, ref) ==
    LET Call(w) ==
            WorkOnTask([w EXCEPT !.events = Append(@,
                           [kind |-> "execute", task |-> t, rid |-> w.cur.rid,
                            dispatch |-> w.cur.dispatch,
                            clone |-> IsAgentBusy(w, team.agent[t]),
                            otherDoing |-> IsTaskAgentBusy(w, t),
                            inFlight |-> w.running[t] > 0,
                            direct |-> ref = w.obj[t] /\ w.heap[ref] # DOING])],
                       t, ref)
    IN Then(w0, Call)

(***************************************************************************)
(* HierarchyExecutionStrategy helpers.                                     *)
(***************************************************************************)
\* getTaskDependencies(task, allTasks): the tasks of allTasks named in dependsOn
GetNoDependencies(t) == {}

GetTaskDependencies(t) == {d \in Tasks : d \in team.dependsOn[t]}

\* no task at all
GetNoTasksDependingOn(t) == {}

\* getAllTasksDependingOn(task, allTasks): the tasks that name it in dependsOn
GetAllTasksDependingOn(t) == {d \in Tasks : t \in team.dependsOn[d]}

\* the filter of execute(): TODO and every dependency DONE, read from allTasks
IsExecutableNoDeps(w, all, t) == w.heap[all[t]] = TODO

IsExecutable(w, all, t) ==
    /\ w.heap[all[t]] = TODO
    /\ \A d \in GetTaskDependencies(t) : w.heap[all[d]] = DONE

\* the tasks of allTasks that are TODO
GetTodoTasks(w, all) == {t \in Tasks : w.heap[all[t]] = TODO}

\* getReadyTasks(allTasks), and the same filter at the end of execute()
GetReadyTasks(w, all) == {t \in Tasks : IsExecutable(w, all, t)}

\* the descending sequence of the elements of a set of task indices
RECURSIVE InReverseOrder(_)
InReverseOrder(S) ==
    IF S = {} THEN <<>>
    ELSE LET m == CHOOSE x \in S : \A y \in S : y <= x
         IN <<m>> \o InReverseOrder(S \ {m})

\* the ascending sequence of the elements of a set of task indices
RECURSIVE InOrder(_)
InOrder(S) ==
    IF S = {} THEN <<>>
    ELSE LET m == CHOOSE x \in S : \A y \in S : x <= y
         IN <<m>> \o InOrder(S \ {m})

\* executableTasks.forEach(task => super._executeTask(task))
RECURSIVE DispatchAll(_, _, _)
DispatchAll(w0, all, ts) ==
    IF ts = <<>> THEN w0
    ELSE LET t == Head(ts)
             Dispatch(w) ==
                 LET ok == \A d \in team.dependsOn[t] : StoreStatus(w, d) = DONE
                 IN ExecuteTask([w EXCEPT !.depsOK[t] = ok], t, all[t])
         IN DispatchAll(Then(w0, Dispatch), all, Tail(ts))

(***************************************************************************)
(* The store's updateTaskStatus and the reaction of the strategy to it.    *)
(* The subscription that turns a commit into strategy.execute(changed,     *)
(* tasks) is not part of the sources at hand; it is modelled as specified: *)
(* the reaction runs synchronously after the commit, with the tasks whose  *)
(* status changed and the committed tasks array, and only when a status    *)
(* changed and a strategy is set.                                          *)
(***************************************************************************)
RECURSIVE UpdateTaskStatus(_, _, _)
RECURSIVE SeqExecute(_, _, _)
RECURSIVE HierExecute(_, _, _)
RECURSIVE HierChanged(_, _, _)
RECURSIVE BlockAll(_, _)
RECURSIVE ResetFrom(_, _)

\* the store commit of updateTaskStatus: the task gets a new object
CommitStatus(w, t, s) ==
    [w EXCEPT !.heap = Append(@, s),
              !.obj[t] = Len(w.heap) + 1]

\* the subscriber: strategy.execute(changedTasks, tasks) after a commit
React(w, changed) ==
    IF changed = <<>> \/ w.strategy = "none" THEN w
    ELSE LET entered == [w EXCEPT !.cur = [rid |-> w.nextRid, dispatch |-> FALSE],
                                  !.nextRid = @ + 1]
             Return(w1) == [w1 EXCEPT !.cur = w.cur]
         IN IF w.strategy = "sequential"
            THEN Then(SeqExecute(entered, changed, w.obj), Return)
            ELSE Then(HierExecute(entered, changed, w.obj), Return)

UpdateTaskStatus(w0, t, s) ==
    LET Update(w) ==
            LET old == StoreStatus(w, t)
            IN Then(CommitStatus(w, t, s),
                    LAMBDA w1 : React(w1, IF old = s THEN <<>> ELSE <<t>>))
    IN Then(w0, Update)

\* the store commit of updateStatusOfMultipleTasks: state.tasks.map gives
\* every task whose id is in taskIds a new object, in one set()
Listed(ids) == {ids[i] : i \in DOMAIN ids}

CommitFirstOnly(w, ids, s) ==
    IF ids = <<>> THEN w
    ELSE IF Head(ids) \in Tasks THEN CommitStatus(w, Head(ids), s) ELSE w

CommitStatuses(w, ids, s) ==
    LET listed == InOrder(Listed(ids) \cap Tasks)
    IN [w EXCEPT !.heap = @ \o [i \in 1..Len(listed) |-> s],
                 !.obj = [t \in Tasks |->
                             IF t \in Listed(ids)
                             THEN Len(w.heap) + CHOOSE i \in 1..Len(listed) : listed[i] = t
                             ELSE @[t]]]

\* updateStatusOfMultipleTasks(taskIds, status): the commit, then the
\* reaction to the tasks whose status changed
UpdateStatusOfMultipleTasks(w0, ids, s) ==
    LET Update(w) ==
            LET changed == InOrder({t \in Listed(ids) \cap Tasks : StoreStatus(w, t) # s})
            IN Then(CommitStatuses(w, ids, s), LAMBDA w1 : React(w1, changed))
    IN Then(w0, Update)

(***************************************************************************)
(* HierarchyExecutionStrategy.execute(changedTasks, allTasks).             *)
(***************************************************************************)
\* dependentTasks.forEach(task => updateTaskStatus(task.id, BLOCKED))
BlockAll(w, ts) ==
    IF ts = <<>> THEN w
    ELSE BlockAll(UpdateTaskStatus(w, Head(ts), BLOCKED), Tail(ts))

\* case REVISE: block the tasks depending on the changed task
HierRevise(w, c) == BlockAll(w, InOrder(GetAllTasksDependingOn(c)))

\* the loop over changedTasks.  In the DOING case the strategy executes the
\* task and awaits it; no commit writes DOING under this strategy, so the
\* case is not entered in the runs modelled here.
HierChanged(w0, changed, all) ==
    IF changed = <<>> THEN w0
    ELSE LET c == Head(changed)
             Case(w) ==
                 LET st == w.heap[all[c]]
                 IN CASE st = DOING -> ExecuteTask(w, c, all[c])
                      [] st = REVISE -> HierRevise(w, c)
                      [] OTHER -> w
         IN HierChanged(Then(w0, Case), Tail(changed), all)

HierExecuteNoDispatch(w, changed, all) == HierChanged(w, changed, all)

HierExecute(w, changed, all) ==
    LET Dispatch(w1) ==
            LET executableTasks == GetReadyTasks(w1, all)
                filtered ==
                    [w1 EXCEPT !.cur.dispatch = TRUE,
                               !.events = Append(@,
                                   [kind |-> "ready", rid |-> w1.cur.rid,
                                    statuses |-> [t \in Tasks |-> w1.heap[all[t]]],
                                    tasks |-> executableTasks])]
            IN DispatchAll(filtered, all, InOrder(executableTasks))
    IN Then(HierChanged(w, changed, all), Dispatch)

(***************************************************************************)
(* SequentialExecutionStrategy: the fastq queue of concurrency 1 and       *)
(* execute(changedTasks, allTasks).                                        *)
(***************************************************************************)
\* the queue's worker takes a task: _executeTask(task)
StartWorker(w, t, ref) == ExecuteTask([w EXCEPT !.worker = t], t, ref)

\* taskQueue.push(task): runs it at once when the worker is idle
Push(w0, t, ref) ==
    LET Enqueue(w) ==
            IF w.worker = 0 THEN StartWorker(w, t, ref)
            ELSE [w EXCEPT !.queue = Append(@, [task |-> t, ref |-> ref])]
    IN Then([w0 EXCEPT !.events = Append(@, [kind |-> "push", task |-> t,
                                            rid |-> w0.cur.rid])],
            Enqueue)

\* as Release, the worker taking the task queued last
ReleaseLast(w0) ==
    LET Next(w) ==
            IF w.queue = <<>> THEN [w EXCEPT !.worker = 0]
            ELSE StartWorker([w EXCEPT !.queue = SubSeq(@, 1, Len(@) - 1)],
                             w.queue[Len(w.queue)].task, w.queue[Len(w.queue)].ref)
    IN Then(w0, Next)

\* callback(): the worker is released and takes the next queued task
Release(w0) ==
    LET Next(w) ==
            IF w.queue = <<>> THEN [w EXCEPT !.worker = 0]
            ELSE StartWorker([w EXCEPT !.queue = Tail(@)],
                             Head(w.queue).task, Head(w.queue).ref)
    IN Then(w0, Next)

\* for (i = taskIndex + 1; i < allTasks.length; i++) updateTaskStatus(id, TODO)
ResetFrom(w, i) ==
    IF i > N THEN w
    ELSE ResetFrom(UpdateTaskStatus(w, i, TODO), i + 1)

\* case REVISE: later tasks back to TODO, the revised task to DOING
SeqReviseNoReset(w, c) == UpdateTaskStatus(w, c, DOING)

SeqRevise(w, c) == UpdateTaskStatus(ResetFrom(w, c + 1), c, DOING)

\* tasks.find(t => t.status === TODO) on the store's current tasks
NextTodoLast(w) ==
    LET todo == {t \in Tasks : StoreStatus(w, t) = TODO}
    IN IF todo = {} THEN 0 ELSE CHOOSE t \in todo : \A u \in todo : u <= t

NextTodo(w) ==
    LET todo == {t \in Tasks : StoreStatus(w, t) = TODO}
    IN IF todo = {} THEN 0 ELSE CHOOSE t \in todo : \A u \in todo : t <= u

\* case DONE: promote the next TODO task
SeqDoneIdle(w0) == w0

SeqDone(w0) ==
    LET Promote(w) ==
            LET nextTask == NextTodo(w)
            IN IF nextTask = 0 THEN w ELSE UpdateTaskStatus(w, nextTask, DOING)
    IN Then(w0, Promote)

SeqExecute(w0, changed, all) ==
    IF changed = <<>> THEN w0
    ELSE LET c == Head(changed)
             Case(w) ==
                 LET st == w.heap[all[c]]
                 IN CASE st = DOING -> Push(w, c, all[c])
                      [] st = REVISE -> SeqRevise(w, c)
                      [] st = DONE -> SeqDone(w)
                      [] OTHER -> w
         IN SeqExecute(Then(w0, Case), Tail(changed), all)

(***************************************************************************)
(* The store's operations.                                                 *)
(***************************************************************************)
\* resetWorkflowStateAction: one commit gives every task a new object with
\* status TODO and clears the logs and the result; the strategy in the
\* store, if any, then reacts to the tasks whose status changed
RECURSIVE ResetTasks(_, _)
ResetTasks(w, i) ==
    IF i > N THEN w
    ELSE ResetTasks(CommitStatus(w, i, TODO), i + 1)

ResetWorkflowStateAction(w0) ==
    LET Reset(w) ==
            LET changed == InOrder({t \in Tasks : StoreStatus(w, t) # TODO})
                cleared == [ResetTasks(w, 1) EXCEPT !.logs = <<>>,
                                                    !.result = 0,
                                                    !.tws = INITIAL]
            IN Then(cleared, LAMBDA w1 : React(w1, changed))
    IN Then(w0, Reset)

\* createWorkflowExecutionStrategy: the topology decides, as specified:
\* hierarchical when some task declares dependsOn, sequential otherwise
CreateWorkflowExecutionStrategy ==
    IF \E t \in Tasks : team.dependsOn[t] # {} THEN "hierarchical" ELSE "sequential"

\* startWorkflow up to the call of startExecution: reset, the initial log,
\* RUNNING, and the new strategy with its own empty queue; the executions
\* still in flight belong to no queue of the new strategy
InstallStrategy(w) ==
    [Emit(w, Log(WorkflowStatusUpdate, 0, RUNNING))
        EXCEPT !.tws = RUNNING,
              !.strategy = CreateWorkflowExecutionStrategy,
              !.queue = <<>>,
              !.worker = 0,
              !.running = [t \in Tasks |-> 0]]

\* the tasks t depends on through a chain of dependsOn edges
RECURSIVE DependenciesWithin(_, _)
DependenciesWithin(S, k) ==
    IF k = 0 THEN S
    ELSE DependenciesWithin(
             S \cup {d \in Tasks : \E u \in S : d \in team.dependsOn[u]}, k - 1)

OnCycle(t) == t \in DependenciesWithin(team.dependsOn[t] \cap Tasks, N)

HasCycle == \E t \in Tasks : OnCycle(t)

\* handleWorkflowError(task, error)
HandleWorkflowErrorLogOnly(w, t, code) ==
    Emit(Tick(w), [Log(WorkflowStatusUpdate, t, ERRORED) EXCEPT !.error = code])

HandleWorkflowError(w, t, code) ==
    [Emit(Tick(w), [Log(WorkflowStatusUpdate, t, ERRORED) EXCEPT !.error = code])
        EXCEPT !.tws = ERRORED]

\* as HandleWorkflowAborted, the status set without a log entry
HandleWorkflowAbortedStatusOnly(w, t, code) ==
    [Tick(w) EXCEPT !.tws = STOPPED]

\* handleWorkflowBlocked({task, error})
HandleWorkflowBlocked(w, t, code) ==
    [Emit(Tick(w), [Log(WorkflowStatusUpdate, t, BLOCKED) EXCEPT !.error = code])
        EXCEPT !.tws = BLOCKED]

\* handleWorkflowAborted({task, error})
HandleWorkflowAborted(w, t, code) ==
    [Emit(Tick(w), [Log(WorkflowStatusUpdate, t, STOPPED) EXCEPT !.error = code])
        EXCEPT !.tws = STOPPED]

\* startExecution of the hierarchical strategy, as specified: the runnable
\* tasks in declaration order, without those whose agent is DOING another
\* task (unless allowParallelExecution), up to maxConcurrency tasks DOING
RECURSIVE HierStartFrom(_, _)
HierStartFrom(w0, i) ==
    IF i > N THEN w0
    ELSE LET Consider(w) ==
               LET runnable == /\ StoreStatus(w, i) = TODO
                               /\ \A d \in team.dependsOn[i] : StoreStatus(w, d) = DONE
                   agentBusy == \E u \in Tasks \ {i} :
                                    team.agent[u] = team.agent[i] /\ StoreStatus(w, u) = DOING
                   inFlight == Cardinality({u \in Tasks : StoreStatus(w, u) = DOING})
                   start == /\ runnable
                            /\ (~agentBusy \/ team.allowParallelExecution[i])
                            /\ inFlight < team.maxConcurrency
               IN IF start
                  THEN ExecuteTask([w EXCEPT !.depsOK[i] = TRUE], i, w.obj[i])
                  ELSE w
         IN HierStartFrom(Then(w0, Consider), i + 1)

\* startExecution, as specified: a cycle in dependsOn fails the workflow;
\* sequential starts the first task only (it becomes DOING through the
\* store, and the reaction queues it)
StartExecution(w) ==
    IF HasCycle THEN HandleWorkflowError(w, 0, CYCLE_IN_DEPENDENCIES)
    ELSE IF w.strategy = "sequential"
         THEN UpdateTaskStatus(w, 1, DOING)
         ELSE HierStartFrom(w, 1)

\* finishWorkflowAction: the result (named by the task it comes from) is
\* the one of the last task of tasks[] marked isDeliverable, or of the last
\* task when there is none; getWorkflowStats reads the clock first
FirstDeliverableResult ==
    IF \E t \in Tasks : team.isDeliverable[t]
    THEN CHOOSE t \in Tasks :
             team.isDeliverable[t] /\ \A u \in Tasks : team.isDeliverable[u] => t <= u
    ELSE N

DeliverableResult ==
    IF \E t \in Tasks : team.isDeliverable[t]
    THEN CHOOSE t \in Tasks :
             team.isDeliverable[t] /\ \A u \in Tasks : team.isDeliverable[u] => u <= t
    ELSE N

FinishWorkflowAction(w) ==
    [Emit(Tick(w), [Log(WorkflowStatusUpdate, 0, FINISHED)
                       EXCEPT !.result = DeliverableResult])
        EXCEPT !.result = DeliverableResult,
               !.tws = FINISHED]

\* handleTaskCompleted, as specified: the agent's final answer makes the
\* task DONE through the store, or AWAITING_VALIDATION when a human has to
\* validate it first; the workflow finishes once every task is DONE
HandleTaskCompleted(w0, t) ==
    LET Complete(w) ==
            LET st == IF team.externalValidationRequired[t] /\ StoreStatus(w, t) # VALIDATED
                      THEN AWAITING_VALIDATION ELSE DONE
            IN UpdateTaskStatus(Emit(w, Log(TaskStatusUpdate, t, st)), t, st)
        Finish(w) ==
            IF \A u \in Tasks : StoreStatus(w, u) = DONE
            THEN FinishWorkflowAction(w) ELSE w
    IN Then(Then(w0, Complete), Finish)

\* provideFeedback up to its commit: the task gets a new object with status
\* REVISE, the workflow is RUNNING, two log entries
FeedbackNoRevise(w, t) ==
    [Emit(Emit(Tick(w), Log(WorkflowStatusUpdate, t, RUNNING)),
          Log(TaskStatusUpdate, t, REVISE))
        EXCEPT !.tws = RUNNING]

\* as FeedbackCommit, with the two entries appended in the other order
FeedbackLogsSwapped(w, t) ==
    LET Swap(x) == [x EXCEPT !.logs = SubSeq(@, 1, Len(@) - 2)
                                        \o <<@[Len(@)], @[Len(@) - 1]>>]
    IN Then(FeedbackNoRevise(CommitStatus(w, t, REVISE), t), Swap)

FeedbackCommit(w, t) ==
    [Emit(Emit(Tick(CommitStatus(w, t, REVISE)), Log(WorkflowStatusUpdate, t, RUNNING)),
          Log(TaskStatusUpdate, t, REVISE))
        EXCEPT !.tws = RUNNING]

\* the feedbackHistory of the updated task
ReplaceFeedback(history, feedback) == <<feedback>>

AppendFeedback(history, feedback) == Append(history, feedback)

NewFeedback(content, now) ==
    [content |-> content, status |-> PENDING, timestamp |-> now]

\* as ValidateCommit, the task keeping its status
ValidateKeepStatus(w, t) ==
    [Emit(Emit(w, Log(WorkflowStatusUpdate, t, RUNNING)),
          Log(TaskStatusUpdate, t, VALIDATED))
        EXCEPT !.tws = RUNNING]

\* validateTask past its two guards: the task gets a new object with status
\* VALIDATED, the workflow is RUNNING, two log entries; then the completion
\* handler
ValidateCommit(w, t) ==
    [Emit(Emit(CommitStatus(w, t, VALIDATED), Log(WorkflowStatusUpdate, t, RUNNING)),
          Log(TaskStatusUpdate, t, VALIDATED))
        EXCEPT !.tws = RUNNING]

CanValidateAny(st) == st # DONE

CanValidate(st) == st = AWAITING_VALIDATION

Commit(w) ==
    /\ status' = StatusOf(w)
    /\ running' = w.running
    /\ taskQueue' = QueueOf(w)
    /\ worker' = w.worker
    /\ depsDoneAtDispatch' = w.depsOK
    /\ workflowExecutionStrategy' = w.strategy
    /\ workflowLogs' = w.logs
    /\ teamWorkflowStatus' = w.tws
    /\ workflowResult' = w.result
    /\ clock' = w.now
    /\ events' = w.events

TypeOK ==
    /\ Len(team.agent) = N
    /\ status \in [Tasks -> {TODO, DOING, BLOCKED, REVISE, DONE,
                             AWAITING_VALIDATION, VALIDATED}]
    /\ teamWorkflowStatus \in {INITIAL, RUNNING, FINISHED, ERRORED}
    /\ workflowExecutionStrategy \in {"none", "sequential", "hierarchical"}
    /\ running \in [Tasks -> Nat]
    /\ orphaned \in [Tasks -> Nat]
    /\ worker \in Tasks \cup {0}
    /\ workflowResult \in Tasks \cup {0}
    /\ inputs \in Inputs \cup {NoInputs}
    /\ DOMAIN feedbackHistory = Tasks
    /\ \A t \in Tasks : \A i \in DOMAIN feedbackHistory[t] :
           /\ feedbackHistory[t][i].content \in Contents
           /\ feedbackHistory[t][i].status \in {PENDING, PROCESSED}
    /\ feedbackCount \in 0..MaxFeedback
    /\ startCount \in Nat
    /\ addCount \in Nat
    /\ validateCount \in Nat
    /\ updateCount \in Nat
    /\ \A i \in DOMAIN events : events[i].kind \in {"execute", "push", "ready"}
    /\ clock \in Nat
    /\ everDone \subseteq Tasks
    /\ revising \subseteq Tasks

\* the store after createTeamStore and addAgents / addTasks of a team
InitFor(teams) ==
    /\ team \in teams
    /\ status = [t \in 1..Len(team.dependsOn) |-> TODO]
    /\ teamWorkflowStatus = INITIAL
    /\ workflowExecutionStrategy = "none"
    /\ running = [t \in 1..Len(team.dependsOn) |-> 0]
    /\ orphaned = [t \in 1..Len(team.dependsOn) |-> 0]
    /\ taskQueue = <<>>
    /\ worker = 0
    /\ workflowLogs = <<>>
    /\ workflowResult = 0
    /\ inputs = NoInputs
    /\ agents = InOrder({team.agent[t] : t \in 1..Len(team.dependsOn)})
    /\ feedbackHistory = [t \in 1..Len(team.dependsOn) |-> <<>>]
    /\ feedbackCount = 0
    /\ startCount = 0
    /\ addCount = 0
    /\ validateCount = 0
    /\ everDone = {}
    /\ depsDoneAtDispatch = [t \in 1..Len(team.dependsOn) |-> FALSE]
    /\ revising = {}
    /\ clock = 1
    /\ updateCount = 0
    /\ events = <<>>
    /\ last = [op |-> "init", task |-> 0,
               pre |-> [t \in 1..Len(team.dependsOn) |-> TODO],
               arg |-> "",
               obs |-> [status |-> [t \in 1..Len(team.dependsOn) |-> TODO],
                        logs |-> <<>>, tws |-> INITIAL, result |-> 0]]

Init == InitFor(Teams)

StoreInit == InitFor(StoreTeams)

\* a call that returns early: only the history records it
Returned(op, t, arg) ==
    /\ last' = [op |-> op, task |-> t, pre |-> status, arg |-> arg,
                obs |-> Observe(LoadWorld)]
    /\ UNCHANGED <<team, status, teamWorkflowStatus, workflowExecutionStrategy,
                   running, taskQueue, worker, workflowLogs, workflowResult,
                   inputs, agents, feedbackHistory, orphaned, startCount,
                   addCount, everDone, depsDoneAtDispatch, revising, clock,
                   updateCount, events>>

DoneIn(w) == {u \in Tasks : StoreStatus(w, u) = DONE}

\* setInputs(inputs), called when inputs are given
SetInputs(given) == IF given = NoInputs THEN inputs ELSE given

\* startWorkflow(inputs); last.obs is the store when startExecution is called
StartWorkflowCall(given) ==
    /\ \E r \in {ResetWorkflowStateAction(LoadWorld)} :
       \E m \in {InstallStrategy(r)} :
       \E w \in {StartExecution(m)} :
          /\ Commit(w)
          /\ everDone' = DoneIn(w)
          /\ orphaned' = [t \in Tasks |-> orphaned[t] + r.running[t]]
          /\ last' = [op |-> "start", task |-> 0, pre |-> status,
                      arg |-> given, obs |-> Observe(m)]
    /\ inputs' = SetInputs(given)
    /\ startCount' = startCount + 1
    /\ revising' = {}
    /\ UNCHANGED <<team, agents, feedbackHistory, feedbackCount, addCount,
                   validateCount, updateCount>>

\* the calls counted against the bound of StoreSpec
Calls == startCount + feedbackCount + addCount + validateCount + updateCount

\* Spec: the one start of the run, without inputs
StartWorkflow ==
    /\ workflowExecutionStrategy = "none"
    /\ StartWorkflowCall(NoInputs)

\* StoreSpec: any call of startWorkflow, while no task waits in the queue of
\* the strategy that is replaced
StartWorkflowWith(given) ==
    /\ Calls < MaxCalls
    /\ taskQueue = <<>>
    /\ StartWorkflowCall(given)

\* provideFeedback(taskId, feedbackContent); last.obs is the store as the
\* call commits it, before the strategy reacts
ProvideFeedback(t, content) ==
    /\ feedbackCount < MaxFeedback
    /\ feedbackCount' = feedbackCount + 1
    /\ IF t \notin Tasks
       THEN Returned("feedback", t, content) /\ UNCHANGED validateCount
       ELSE /\ \E m \in {FeedbackCommit(LoadWorld, t)} :
               \E w \in {React(m, IF status[t] = REVISE THEN <<>> ELSE <<t>>)} :
                  /\ Commit(w)
                  /\ everDone' = everDone \cup DoneIn(w)
                  /\ last' = [op |-> "feedback", task |-> t, pre |-> status,
                              arg |-> content, obs |-> Observe(m)]
            /\ feedbackHistory' =
                   [feedbackHistory EXCEPT
                       ![t] = AppendFeedback(@, NewFeedback(content, clock))]
            /\ revising' = revising \cup {t}
            /\ UNCHANGED <<team, inputs, agents, orphaned, startCount, addCount,
                           validateCount, updateCount>>

\* validateTask(taskId)
ValidateTask(t) ==
    /\ Calls < MaxCalls
    /\ validateCount' = validateCount + 1
    /\ feedbackCount' = feedbackCount
    /\ IF t \notin Tasks
       THEN Returned("validate", t, "")
       ELSE IF ~CanValidate(status[t])
       THEN Returned("validate", t, "")
       ELSE /\ \E m \in {ValidateCommit(LoadWorld, t)} :
               \E w \in {HandleTaskCompleted(React(m, <<t>>), t)} :
                  /\ Commit(w)
                  /\ everDone' = everDone \cup DoneIn(w)
                  /\ revising' = IF StoreStatus(w, t) = DONE
                                 THEN revising \ {t} ELSE revising
                  /\ last' = [op |-> "validate", task |-> t, pre |-> status,
                              arg |-> "", obs |-> Observe(m)]
            /\ UNCHANGED <<team, inputs, agents, feedbackHistory, orphaned,
                           startCount, addCount, updateCount>>

\* addAgents(agents), with one agent
AddAgents ==
    /\ Calls < MaxCalls
    /\ addCount' = addCount + 1
    /\ agents' = Append(agents, AddedAgent)
    /\ last' = [op |-> "addAgents", task |-> 0, pre |-> status, arg |-> "",
                obs |-> Observe(LoadWorld)]
    /\ UNCHANGED <<team, status, teamWorkflowStatus, workflowExecutionStrategy,
                   running, taskQueue, worker, workflowLogs, workflowResult,
                   inputs, feedbackHistory, orphaned, feedbackCount, startCount,
                   validateCount, everDone, depsDoneAtDispatch, revising, clock,
                   updateCount, events>>

\* addTasks(tasks), with one task: it is appended to the tasks array
AddTasks ==
    /\ Calls < MaxCalls
    /\ addCount' = addCount + 1
    /\ team' = [team EXCEPT
                   !.dependsOn = Append(@, AddedTask.dependsOn),
                   !.agent = Append(@, AddedTask.agent),
                   !.allowParallelExecution = Append(@, AddedTask.allowParallelExecution),
                   !.externalValidationRequired =
                       Append(@, AddedTask.externalValidationRequired),
                   !.isDeliverable = Append(@, AddedTask.isDeliverable)]
    /\ status' = Append(status, TODO)
    /\ running' = Append(running, 0)
    /\ orphaned' = Append(orphaned, 0)
    /\ depsDoneAtDispatch' = Append(depsDoneAtDispatch, FALSE)
    /\ feedbackHistory' = Append(feedbackHistory, <<>>)
    /\ last' = [op |-> "addTasks", task |-> 0, pre |-> status, arg |-> "",
                obs |-> Observe(LoadWorld)]
    /\ UNCHANGED <<teamWorkflowStatus, workflowExecutionStrategy, taskQueue,
                   worker, workflowLogs, workflowResult, inputs, agents,
                   feedbackCount, startCount, validateCount, everDone, revising,
                   clock, updateCount, events>>

(***************************************************************************)
(* getCleanedState.  A JavaScript object is a function from field names    *)
(* to values; {...o, k: v} is With(o, k, v), and {} is the empty function. *)
(***************************************************************************)
REDACTED == "[REDACTED]"
\* null; it has none of the fields of an agent, a task or a log
Null == [null |-> TRUE]
EmptyObject == <<>>

Has(o, k) == k \in DOMAIN o

With(o, k, v) == [x \in DOMAIN o \cup {k} |-> IF x = k THEN v ELSE o[x]]

Without(o, ks) == [x \in DOMAIN o \ ks |-> o[x]]

\* the llmConfig of an agent or agentInstance, when it has one
CleanLlmConfig(o) ==
    IF Has(o, "llmConfig") THEN With(o.llmConfig, "apiKey", REDACTED) ELSE EmptyObject

\* cleanAgent, leaving agentInstance as it is
CleanAgentRootOnly(agent) ==
    With(With(With(agent, "id", REDACTED), "env", REDACTED),
         "llmConfig", CleanLlmConfig(agent))

\* cleanAgent(agent)
CleanAgent(agent) ==
    LET cleanedAgentInstance ==
            IF Has(agent, "agentInstance")
            THEN With(With(With(agent.agentInstance, "id", REDACTED), "env", REDACTED),
                      "llmConfig", CleanLlmConfig(agent.agentInstance))
            ELSE EmptyObject
    IN With(With(With(With(agent, "id", REDACTED), "env", REDACTED),
                 "llmConfig", CleanLlmConfig(agent)),
            "agentInstance", cleanedAgentInstance)

\* cleanTask(task)
CleanTask(task) ==
    LET rest == Without(task, {"allowParallelExecution", "referenceId", "hooks",
                               "workflowInternalMemory"})
        feedback == IF Has(task, "feedbackHistory")
                    THEN [i \in DOMAIN task.feedbackHistory |->
                             With(task.feedbackHistory[i], "timestamp", REDACTED)]
                    ELSE <<>>
        cleanedTask ==
            With(With(With(With(With(With(rest, "id", REDACTED),
                 "agent", IF Has(task, "agent") /\ task.agent # Null
                          THEN CleanAgent(task.agent) ELSE Null),
                 "duration", REDACTED),
                 "endTime", REDACTED),
                 "startTime", REDACTED),
                 "feedbackHistory", feedback)
        withParallel ==
            IF Has(task, "allowParallelExecution") /\ task.allowParallelExecution
            THEN With(cleanedTask, "allowParallelExecution", TRUE)
            ELSE cleanedTask
    IN IF Has(task, "referenceId")
       THEN With(withParallel, "referenceId", task.referenceId)
       ELSE withParallel

\* cleanMetadata(metadata)
CleanMetadata(metadata) ==
    With(With(With(With(metadata, "duration", REDACTED),
         "endTime", REDACTED),
         "startTime", REDACTED),
         "feedback", IF Has(metadata, "feedback")
                     THEN With(metadata.feedback, "timestamp", REDACTED)
                     ELSE EmptyObject)

\* the map over state.workflowLogs
CleanLog(log) ==
    With(With(With(With(log,
         "agent", IF log.agent # Null THEN CleanAgent(log.agent) ELSE Null),
         "task", IF log.task # Null THEN CleanTask(log.task) ELSE Null),
         "timestamp", REDACTED),
         "metadata", IF Has(log, "metadata") THEN CleanMetadata(log.metadata)
                     ELSE EmptyObject)

\* getCleanedState() on the store state
GetCleanedState(state) ==
    [teamWorkflowStatus |-> state.teamWorkflowStatus,
     workflowResult |-> state.workflowResult,
     name |-> state.name,
     agents |-> [i \in DOMAIN state.agents |-> CleanAgent(state.agents[i])],
     tasks |-> [i \in DOMAIN state.tasks |-> CleanTask(state.tasks[i])],
     workflowLogs |-> [i \in DOMAIN state.workflowLogs |-> CleanLog(state.workflowLogs[i])],
     inputs |-> state.inputs,
     workflowContext |-> state.workflowContext,
     logLevel |-> state.logLevel]

(***************************************************************************)
(* The store state getCleanedState reads, for a run with its own ids,      *)
(* secrets and clock origin.  The agent added by addAgents has neither an  *)
(* llmConfig nor an agentInstance.  Ids and times are written as their     *)
(* decimal strings.                                                        *)
(***************************************************************************)
Runs ==
    {[id |-> 100, env |-> "env-a", apiKey |-> "sk-a", origin |-> 1000],
     [id |-> 200, env |-> "env-b", apiKey |-> "sk-b", origin |-> 5000]}

AgentObject(a, r) ==
    IF a = AddedAgent
    THEN [id |-> ToString(r.id + a), name |-> a, env |-> r.env]
    ELSE [id |-> ToString(r.id + a), name |-> a, env |-> r.env,
          llmConfig |-> [model |-> "model", apiKey |-> r.apiKey],
          agentInstance |-> [id |-> ToString(r.id + a), env |-> r.env,
                             llmConfig |-> [model |-> "model", apiKey |-> r.apiKey]]]

\* the object of task t with status st
TaskObject(t, st, r) ==
    [id |-> ToString(r.id + t),
     title |-> t,
     status |-> st,
     agent |-> AgentObject(team.agent[t], r),
     dependsOn |-> team.dependsOn[t],
     isDeliverable |-> team.isDeliverable[t],
     externalValidationRequired |-> team.externalValidationRequired[t],
     allowParallelExecution |-> team.allowParallelExecution[t],
     duration |-> ToString(clock),
     startTime |-> ToString(r.origin),
     endTime |-> ToString(r.origin + clock),
     feedbackHistory |->
         [i \in DOMAIN feedbackHistory[t] |->
             With(feedbackHistory[t][i], "timestamp",
                  ToString(r.origin + feedbackHistory[t][i].timestamp))]]

\* a workflowLogs entry with the objects it refers to
LogObject(l, r) ==
    [timestamp |-> ToString(r.origin + l.timestamp),
     logType |-> l.logType,
     status |-> l.status,
     task |-> IF l.task \in Tasks THEN TaskObject(l.task, l.status, r) ELSE Null,
     agent |-> IF l.task \in Tasks THEN AgentObject(team.agent[l.task], r) ELSE Null,
     metadata |->
         IF l.logType = WorkflowStatusUpdate /\ l.status \in {FINISHED, ERRORED}
         THEN [result |-> l.result, error |-> l.error, startTime |-> ToString(r.origin),
               endTime |-> ToString(r.origin + l.timestamp),
               duration |-> ToString(l.timestamp)]
         ELSE IF l.logType = TaskStatusUpdate /\ l.status = REVISE
         THEN [feedback |-> [status |-> PENDING,
                            timestamp |-> ToString(r.origin + l.timestamp)]]
         ELSE EmptyObject]

\* the store state of run r, as observed in o
StoreState(o, r) ==
    [teamWorkflowStatus |-> o.tws,
     workflowResult |-> o.result,
     name |-> "team",
     agents |-> [i \in DOMAIN agents |-> AgentObject(agents[i], r)],
     tasks |-> [t \in DOMAIN o.status |-> TaskObject(t, o.status[t], r)],
     workflowLogs |-> [i \in DOMAIN o.logs |-> LogObject(o.logs[i], r)],
     inputs |-> inputs,
     workflowContext |-> "",
     logLevel |-> "info",
     env |-> r.env,
     hooks |-> EmptyObject]

(***************************************************************************)
(* getWorkflowStats, and the log lists it reads.  In StatsSpec the clock   *)
(* is read without advancing it, so it may give consecutive entries the    *)
(* same timestamp; it advances between entries in a step of its own.       *)
(***************************************************************************)
THINKING == "THINKING"
THINKING_END == "THINKING_END"
THINKING_ERROR == "THINKING_ERROR"
ISSUES_PARSING_LLM_OUTPUT == "ISSUES_PARSING_LLM_OUTPUT"
ITERATION_END == "ITERATION_END"

AgentStatuses ==
    {THINKING, THINKING_END, THINKING_ERROR, ISSUES_PARSING_LLM_OUTPUT, ITERATION_END}

\* the token usage an LLM call reports
UsageIn == 3
UsageOut == 5

NoStats ==
    [inputTokens |-> 0, outputTokens |-> 0, callsCount |-> 0,
     callsErrorCount |-> 0, parsingErrors |-> 0, iterationCount |-> 0]

IsRunningLog(log) == log.logType = WorkflowStatusUpdate /\ log.status = RUNNING

\* the body of the forEach, on one log
CountLog(acc, log, startTime) ==
    IF log.logType = AgentStatusUpdate /\ log.timestamp >= startTime
    THEN IF log.agentStatus = THINKING_END
         THEN [acc EXCEPT !.inputTokens = @ + log.inputTokens,
                          !.outputTokens = @ + log.outputTokens,
                          !.callsCount = @ + 1]
         ELSE IF log.agentStatus = THINKING_ERROR
         THEN [acc EXCEPT !.callsErrorCount = @ + 1]
         ELSE IF log.agentStatus = ISSUES_PARSING_LLM_OUTPUT
         THEN [acc EXCEPT !.parsingErrors = @ + 1]
         ELSE IF log.agentStatus = ITERATION_END
         THEN [acc EXCEPT !.iterationCount = @ + 1]
         ELSE acc
    ELSE acc

RECURSIVE FoldLogs(_, _, _, _)
FoldLogs(logs, i, acc, startTime) ==
    IF i > Len(logs) THEN acc
    ELSE FoldLogs(logs, i + 1, CountLog(acc, logs[i], startTime), startTime)

\* getWorkflowStats() on the log list, the clock reading now
GetWorkflowStats(logs, now) ==
    LET runningLogs == {i \in DOMAIN logs : IsRunningLog(logs[i])}
        startTime == IF runningLogs # {}
                     THEN logs[CHOOSE i \in runningLogs :
                                  \A j \in runningLogs : j <= i].timestamp
                     ELSE now
    IN FoldLogs(logs, 1, NoStats, startTime)

(***************************************************************************)
(* deriveContextFromLogs(logs, currentTaskId).  A string is the sequence   *)
(* of its pieces.  The result of an execution is a string for the tasks    *)
(* with an odd index and an object for the others; executions that end at  *)
(* different times give different results.                                 *)
(***************************************************************************)
\* log.metadata.result of a DONE log
ResultOf(log) ==
    IF log.task % 2 = 1
    THEN [typeof |-> "string", text |-> ToString(log.timestamp)]
    ELSE [typeof |-> "object", answer |-> log.timestamp]

\* JSON.stringify of a result object
JsonStringify(result) == <<"{\"answer\":", ToString(result.answer), "}">>

\* `${result}` whatever the type of the result
RenderAsText(result) ==
    IF result.typeof = "object" THEN <<"[object Object]">> ELSE <<result.text>>

\* typeof result === 'object' ? JSON.stringify(result) : result
RenderResult(result) ==
    IF result.typeof = "object" THEN JsonStringify(result) ELSE <<result.text>>

\* tasks.findIndex(task => task.id === id), 0 when there is none
FindIndex(id) == IF id \in Tasks THEN id ELSE 0

\* the loop over the logs: taskResults.set(log.task.id, ...)
RECURSIVE CollectResults(_, _, _, _)
CollectResults(logs, i, currentTaskIndex, taskResults) ==
    IF i > Len(logs) THEN taskResults
    ELSE LET log == logs[i]
             taskIndex == FindIndex(log.task)
             taken == /\ log.logType = TaskStatusUpdate
                      /\ log.status = DONE
                      /\ taskIndex # 0
                      /\ taskIndex < currentTaskIndex
         IN CollectResults(logs, i + 1, currentTaskIndex,
                IF taken
                THEN [x \in DOMAIN taskResults \cup {log.task} |->
                         IF x = log.task
                         THEN [taskDescription |-> ToString(log.task), result |-> ResultOf(log),
                               index |-> taskIndex]
                         ELSE taskResults[x]]
                ELSE taskResults)

\* the Map's values sorted by index
RECURSIVE SortByIndex(_)
SortByIndex(taskResults) ==
    IF DOMAIN taskResults = {} THEN <<>>
    ELSE LET k == CHOOSE x \in DOMAIN taskResults :
                      \A y \in DOMAIN taskResults : taskResults[x].index <= taskResults[y].index
         IN <<taskResults[k]>>
                \o SortByIndex([x \in DOMAIN taskResults \ {k} |-> taskResults[x]])

\* `Task: ${taskDescription}\nResult: ${...}\n`
Block(entry) ==
    <<"Task: ", entry.taskDescription, "\nResult: ">> \o RenderResult(entry.result) \o <<"\n">>

\* blocks.join('\n')
RECURSIVE Join(_)
Join(blocks) ==
    IF blocks = <<>> THEN <<>>
    ELSE IF Len(blocks) = 1 THEN Head(blocks)
    ELSE Head(blocks) \o <<"\n">> \o Join(Tail(blocks))

DeriveContextFromLogs(logs, currentTaskId) ==
    LET currentTaskIndex == FindIndex(currentTaskId)
    IN IF currentTaskIndex = 0 THEN <<>>
       ELSE LET sorted == SortByIndex(CollectResults(logs, 1, currentTaskIndex, <<>>))
            IN Join([i \in DOMAIN sorted |-> Block(sorted[i])])

\* the ids and statuses the callers of the two update operations pass
IdLists == {<<1>>, <<2, 1>>, <<1, 1>>, <<UnknownId, 2>>, <<>>}
UpdateStatuses == {TODO, DOING, DONE, BLOCKED}

\* updateTaskStatus(taskId, status) called on the store; last.obs is the
\* store as the call commits it, before the strategy reacts
UpdateTaskStatusCall(t, s) ==
    /\ Calls < MaxCalls
    /\ updateCount' = updateCount + 1
    /\ \E m \in {IF t \in Tasks THEN CommitStatus(LoadWorld, t, s) ELSE LoadWorld} :
       \E w \in {IF t \in Tasks THEN UpdateTaskStatus(LoadWorld, t, s) ELSE LoadWorld} :
          /\ Commit(w)
          /\ everDone' = everDone \cup DoneIn(w)
          /\ last' = [op |-> "updateTaskStatus", task |-> t, pre |-> status,
                      arg |-> s, obs |-> Observe(m)]
    /\ UNCHANGED <<team, inputs, agents, feedbackHistory, orphaned, feedbackCount,
                   startCount, addCount, validateCount, revising>>

\* updateStatusOfMultipleTasks(taskIds, status) called on the store
UpdateStatusOfMultipleTasksCall(ids, s) ==
    /\ Calls < MaxCalls
    /\ updateCount' = updateCount + 1
    /\ \E m \in {CommitStatuses(LoadWorld, ids, s)} :
       \E w \in {UpdateStatusOfMultipleTasks(LoadWorld, ids, s)} :
          /\ Commit(w)
          /\ everDone' = everDone \cup DoneIn(w)
          /\ last' = [op |-> "updateStatusOfMultipleTasks", task |-> ids,
                      pre |-> status, arg |-> s, obs |-> Observe(m)]
    /\ UNCHANGED <<team, inputs, agents, feedbackHistory, orphaned, feedbackCount,
                   startCount, addCount, validateCount, revising>>

\* the worlds a completion leads to: the completion handler, then (for the
\* sequential strategy) the queue worker's callback
CompletedFrom(w, t) ==
    LET w0 == [w EXCEPT !.running[t] = @ - 1]
    IN Then(HandleTaskCompleted(w0, t),
            LAMBDA w1 : IF w1.strategy = "sequential" THEN Release(w1) ELSE w1)

CompletedWorld(t) == CompletedFrom(LoadWorld, t)

\* the agent working on task t gives its final answer
TaskCompleted(t) ==
    /\ running[t] > 0
    /\ \E w \in {CompletedWorld(t)} :
          /\ Commit(w)
          /\ everDone' = everDone \cup DoneIn(w)
          /\ revising' = IF StoreStatus(w, t) = DONE THEN revising \ {t} ELSE revising
    /\ last' = [op |-> "done", task |-> t, pre |-> status, arg |-> "",
                obs |-> Observe(LoadWorld)]
    /\ UNCHANGED <<team, inputs, agents, feedbackHistory, orphaned,
                   feedbackCount, startCount, addCount, validateCount, updateCount>>

\* an agent started before the last startWorkflow gives its final answer:
\* the completion handler runs, no queue of the present strategy is involved
OrphanCompleted(t) ==
    /\ orphaned[t] > 0
    /\ orphaned' = [orphaned EXCEPT ![t] = @ - 1]
    /\ \E w \in {HandleTaskCompleted(LoadWorld, t)} :
          /\ Commit(w)
          /\ everDone' = everDone \cup DoneIn(w)
          /\ revising' = IF StoreStatus(w, t) = DONE THEN revising \ {t} ELSE revising
    /\ last' = [op |-> "done", task |-> t, pre |-> status, arg |-> "",
                obs |-> Observe(LoadWorld)]
    /\ UNCHANGED <<team, inputs, agents, feedbackHistory, feedbackCount,
                   startCount, addCount, validateCount, updateCount>>

\* workOnFeedback: the agent executing task t consumes the PENDING feedback
\* of the task, marking the entries PROCESSED
MarkProcessed(history) ==
    [i \in DOMAIN history |-> [history[i] EXCEPT !.status = PROCESSED]]

WorkOnFeedback(t) ==
    /\ running[t] + orphaned[t] > 0
    /\ \E i \in DOMAIN feedbackHistory[t] : feedbackHistory[t][i].status = PENDING
    /\ feedbackHistory' = [feedbackHistory EXCEPT ![t] = MarkProcessed(@)]
    /\ last' = [op |-> "workOnFeedback", task |-> t, pre |-> status, arg |-> "",
                obs |-> Observe(LoadWorld)]
    /\ UNCHANGED <<team, status, teamWorkflowStatus, workflowExecutionStrategy,
                   running, taskQueue, worker, workflowLogs, workflowResult,
                   inputs, agents, orphaned, feedbackCount, startCount, addCount,
                   validateCount, everDone, depsDoneAtDispatch, revising, clock,
                   updateCount, events>>

(***************************************************************************)
(* handleChangedTasks(changedTaskIds) and the strategy's                   *)
(* executeFromChangedTasks.  The base class rejects ("must be implemented  *)
(* by concrete strategies"); a concrete strategy reacts to the changed     *)
(* tasks.  Both are async: a failure is a rejected promise.                *)
(***************************************************************************)
\* the changed task ids handed to handleChangedTasks
ChangedLists == {<<1>>, <<2>>, <<1, 2>>}

\* strategy.executeFromChangedTasks(get(), changedTaskIds): the promise it
\* returns and the store it leaves
ExecuteFromChangedTasks(w, changed, implemented) ==
    IF implemented
    THEN [world |-> React(w, changed), promise |-> "fulfilled"]
    ELSE [world |-> w, promise |-> "rejected"]

\* as HandleChangedTasks, without the .catch(): the rejection is the caller's
HandleChangedTasksUncaught(w, changed, implemented) ==
    IF w.strategy = "none"
    THEN [world |-> w, logger |-> "", promise |-> "fulfilled"]
    ELSE LET r == ExecuteFromChangedTasks(w, changed, implemented)
         IN [world |-> r.world,
             logger |-> IF r.promise = "fulfilled" THEN "debug" ELSE "",
             promise |-> r.promise]

\* handleChangedTasks: nothing without a strategy; .then() logs at debug
\* level, .catch() logs at error level; the promise of handleChangedTasks
\* itself is fulfilled either way
HandleChangedTasks(w, changed, implemented) ==
    IF w.strategy = "none"
    THEN [world |-> w, logger |-> "", promise |-> "fulfilled"]
    ELSE LET r == ExecuteFromChangedTasks(w, changed, implemented)
         IN [world |-> r.world,
             logger |-> IF r.promise = "fulfilled" THEN "debug" ELSE "error",
             promise |-> "fulfilled"]

\* handleChangedTasks called on the store; last.arg is what the logger was
\* given, last.obs what the caller gets back
HandleChangedTasksCall(changed, implemented) ==
    /\ Calls < MaxCalls
    /\ updateCount' = updateCount + 1
    /\ \E r \in {HandleChangedTasks(LoadWorld, changed, implemented)} :
          /\ Commit(r.world)
          /\ everDone' = everDone \cup DoneIn(r.world)
          /\ last' = [op |-> "handleChangedTasks", task |-> changed, pre |-> status,
                      arg |-> r.logger,
                      obs |-> [promise |-> r.promise, implemented |-> implemented]]
    /\ UNCHANGED <<team, inputs, agents, feedbackHistory, orphaned, feedbackCount,
                   startCount, addCount, validateCount, revising>>

\* the workflow-level handlers of the store
WorkflowHandlers == {"handleWorkflowError", "handleWorkflowBlocked",
                     "handleWorkflowAborted", "finishWorkflowAction"}

\* the error the callers of the handlers pass
HandlerError == "TASK_FAILED"

\* a workflow-level handler called on the store for task t
WorkflowHandlerCall(handler, t) ==
    /\ Calls < MaxCalls
    /\ updateCount' = updateCount + 1
    /\ \E w \in {CASE handler = "handleWorkflowError" ->
                          HandleWorkflowError(LoadWorld, t, HandlerError)
                   [] handler = "handleWorkflowBlocked" ->
                          HandleWorkflowBlocked(LoadWorld, t, HandlerError)
                   [] handler = "handleWorkflowAborted" ->
                          HandleWorkflowAborted(LoadWorld, t, HandlerError)
                   [] handler = "finishWorkflowAction" ->
                          FinishWorkflowAction(LoadWorld)} :
          /\ Commit(w)
          /\ everDone' = everDone \cup DoneIn(w)
    /\ last' = [op |-> handler, task |-> t, pre |-> status, arg |-> "",
                obs |-> Observe(LoadWorld)]
    /\ UNCHANGED <<team, inputs, agents, feedbackHistory, orphaned, feedbackCount,
                   startCount, addCount, validateCount, revising>>

Next ==
    \/ StartWorkflow
    \/ \E t \in Tasks : ProvideFeedback(t, "shorter")
    \/ \E t \in Tasks : TaskCompleted(t)

Spec == Init /\ [][Next]_vars

\* the agents' executions end: every execution in flight eventually reports
FairSpec == Spec /\ WF_vars(\E t \in Tasks : TaskCompleted(t))

StoreNext ==
    \/ \E given \in Inputs \cup {NoInputs} : StartWorkflowWith(given)
    \/ \E t \in Tasks \cup {UnknownId} : \E content \in Contents :
            Calls < MaxCalls /\ ProvideFeedback(t, content)
    \/ \E t \in Tasks \cup {UnknownId} : ValidateTask(t)
    \/ AddAgents
    \/ AddTasks
    \/ \E t \in Tasks : TaskCompleted(t)
    \/ \E t \in Tasks : OrphanCompleted(t)
    \/ \E t \in Tasks : WorkOnFeedback(t)

StoreSpec == StoreInit /\ [][StoreNext]_vars

\* the two update operations of the store called by any caller, on a store
\* that is started and whose agents report completion
UpdateNext ==
    \/ \E given \in {NoInputs} : StartWorkflowWith(given)
    \/ \E t \in Tasks \cup {UnknownId} : \E s \in UpdateStatuses :
            UpdateTaskStatusCall(t, s)
    \/ \E ids \in IdLists : \E s \in UpdateStatuses :
            UpdateStatusOfMultipleTasksCall(ids, s)
    \/ \E t \in Tasks : TaskCompleted(t)
    \/ \E t \in Tasks : OrphanCompleted(t)

UpdateSpec == StoreInit /\ [][UpdateNext]_vars

\* handleChangedTasks called by any caller, with a strategy that implements
\* executeFromChangedTasks or not, on a store that is started or not
ChangedNext ==
    \/ \E given \in {NoInputs} : StartWorkflowWith(given)
    \/ \E changed \in ChangedLists : \E implemented \in BOOLEAN :
            HandleChangedTasksCall(changed, implemented)
    \/ \E t \in Tasks : TaskCompleted(t)
    \/ \E t \in Tasks : OrphanCompleted(t)

ChangedSpec == StoreInit /\ [][ChangedNext]_vars

\* the operations that set teamWorkflowStatus, called in any order, with
\* task status updates and completions between them
WorkflowNext ==
    \/ \E given \in {NoInputs} : StartWorkflowWith(given)
    \/ \E t \in Tasks \cup {UnknownId} : \E content \in Contents :
            Calls < MaxCalls /\ ProvideFeedback(t, content)
    \/ \E t \in Tasks \cup {UnknownId} : ValidateTask(t)
    \/ \E handler \in WorkflowHandlers : \E t \in Tasks :
            WorkflowHandlerCall(handler, t)
    \/ \E t \in Tasks : \E s \in UpdateStatuses : UpdateTaskStatusCall(t, s)
    \/ \E t \in Tasks : TaskCompleted(t)
    \/ \E t \in Tasks : OrphanCompleted(t)

WorkflowSpec == StoreInit /\ [][WorkflowNext]_vars

(***************************************************************************)
(* Properties.                                                             *)
(***************************************************************************)
Hierarchical == workflowExecutionStrategy = "hierarchical"
Sequential == workflowExecutionStrategy = "sequential"

TaskIds == DOMAIN DiamondTeam.dependsOn

DoingTasks == {t \in Tasks : status[t] = DOING}

\* every task that depends on t through a chain of dependsOn edges
RECURSIVE DependentsWithin(_, _)
DependentsWithin(S, k) ==
    IF k = 0 THEN S
    ELSE DependentsWithin(
             S \cup {d \in Tasks : \E u \in S : u \in team.dependsOn[d]}, k - 1)

TransitiveDependents(t) == DependentsWithin({t}, N) \ {t}

C2_ConcurrencyBound == Cardinality(DoingTasks) <= team.maxConcurrency

\* C3: under the sequential strategy at most one task has status DOING.
C3_SequentialSingleDoing == Sequential => Cardinality(DoingTasks) <= 1

\* C4: two tasks of the same agent are DOING together only if
\* allowParallelExecution is set (hierarchical strategy).
C4_AgentSingleUse ==
    Hierarchical =>
        \A t, u \in DoingTasks :
            (t # u /\ team.agent[t] = team.agent[u]) =>
                (team.allowParallelExecution[t] \/ team.allowParallelExecution[u])

\* C5: under the hierarchical strategy, after the reaction to a task
\* changing to REVISE every task that depends on it transitively is BLOCKED.
C5_ReviseBlocksTransitively ==
    (Hierarchical /\ last.op = "feedback" /\ last.pre[last.task] # REVISE) =>
        \A d \in TransitiveDependents(last.task) : status[d] = BLOCKED

\* C6: under the hierarchical strategy a task that was DONE and is put in
\* REVISE by feedback eventually becomes DOING again.
C6_ReviseLeadsToDoing ==
    \A t \in TaskIds :
        (Hierarchical /\ status[t] = REVISE /\ t \in everDone) ~> (status[t] = DOING)

\* C7: under the hierarchical strategy, when a revised task reaches DONE
\* again, its dependents that were BLOCKED are back to TODO (or already
\* re-dispatched by the runnable rule) once the reaction has run.
C7_RevisedDoneUnblocks ==
    [][\A t \in Tasks :
          (Hierarchical /\ status[t] = REVISE /\ status'[t] = DONE) =>
              \A d \in GetAllTasksDependingOn(t) :
                  status[d] = BLOCKED => status'[d] \in {TODO, DOING}]_vars

\* C8: under the sequential strategy, after the reaction to task i changing
\* to REVISE every later task is TODO, task i is DOING and every earlier
\* task has the status it had.
C8_SequentialRevise ==
    (Sequential /\ last.op = "feedback" /\ last.pre[last.task] # REVISE) =>
        /\ \A j \in Tasks : j > last.task => status[j] = TODO
        /\ status[last.task] = DOING
        /\ \A j \in Tasks : j < last.task => status[j] = last.pre[j]

C8_Witness ==
    /\ Sequential
    /\ last.op = "feedback"
    /\ last.task > 1
    /\ \E j \in Tasks : j > last.task /\ last.pre[j] = DOING
    /\ \E j \in Tasks : j > last.task /\ last.pre[j] = DONE

\* C9: under the sequential strategy, while a task that was given feedback
\* has not been DONE again, no later task becomes DONE.
C9_NoLaterDoneBeforeRevised ==
    [][Sequential =>
          \A j \in Tasks :
              (status[j] # DONE /\ status'[j] = DONE) =>
                  \A i \in revising : ~(i < j)]_vars

\* C10: under the sequential strategy, when a task reaches DONE the TODO
\* task with the smallest index becomes DOING and nothing else changes; if
\* no task is TODO, nothing else changes.
AfterDone == [last.pre EXCEPT ![last.task] = DONE]

TodoAfterDone == {u \in Tasks : AfterDone[u] = TODO}

C10_DonePromotesNextTodo ==
    (Sequential /\ last.op = "done" /\ last.pre[last.task] # DONE) =>
        /\ TodoAfterDone = {} => status = AfterDone
        /\ TodoAfterDone # {} =>
              \E n \in TodoAfterDone :
                  /\ \A u \in TodoAfterDone : n <= u
                  /\ status = [AfterDone EXCEPT ![n] = DOING]

C10_Witness ==
    /\ Sequential
    /\ last.op = "done"
    /\ last.pre[last.task] # DONE
    /\ Cardinality(TodoAfterDone) >= 2
    /\ \E n \in TodoAfterDone : n # last.task + 1 /\ status[n] = DOING

AllDone == \A t \in Tasks : status[t] = DONE

NothingInFlight == \A t \in Tasks : running[t] = 0

\* C11: in a sequential run without feedback a task is DOING or DONE only
\* when the task before it in tasks[] is DONE, and, the running agents
\* finishing, every task is eventually DONE.
C11_SequentialInOrder ==
    /\ [](Sequential /\ feedbackCount = 0 =>
              \A i \in Tasks : (i > 1 /\ status[i] \in {DOING, DONE}) => status[i - 1] = DONE)
    /\ ([](feedbackCount = 0) => (Sequential ~> AllDone))

C11_Witness ==
    /\ Sequential
    /\ feedbackCount = 0
    /\ AllDone
    /\ teamWorkflowStatus = FINISHED

\* C12: for an acyclic dependsOn graph, in a run without feedback, the
\* running agents finishing, after start every task is eventually DONE with
\* no execution left in flight.
C12_AcyclicTerminates ==
    [](feedbackCount = 0) =>
        ((Hierarchical /\ ~HasCycle) ~> (AllDone /\ NothingInFlight))

C12_Witness ==
    /\ Hierarchical
    /\ ~HasCycle
    /\ feedbackCount = 0
    /\ AllDone
    /\ NothingInFlight
    /\ \E t \in Tasks : Cardinality(team.dependsOn[t]) = 2

C14_CycleNeverDoing ==
    \A t \in Tasks : OnCycle(t) => (status[t] # DOING /\ running[t] = 0)

C14_Witness ==
    /\ HasCycle
    /\ \E t \in Tasks : OnCycle(t) /\ status[t] = REVISE
    /\ \E t \in Tasks : ~OnCycle(t) /\ status[t] = DOING

\* C15: when startWorkflow calls startExecution, every task of the store is
\* TODO, the workflow is RUNNING, workflowResult is null, workflowLogs holds
\* exactly the one WorkflowStatusUpdate RUNNING entry, and inputs is the
\* given inputs when inputs were given.
C15_StartResetsState ==
    last.op = "start" =>
        /\ \A t \in DOMAIN last.obs.status : last.obs.status[t] = TODO
        /\ last.obs.tws = RUNNING
        /\ last.obs.result = 0
        /\ Len(last.obs.logs) = 1
        /\ last.obs.logs[1].logType = WorkflowStatusUpdate
        /\ last.obs.logs[1].status = RUNNING
        /\ (last.arg # NoInputs => inputs = last.arg)

\* C16: a call of startWorkflow while the workflow is RUNNING leaves the
\* tasks, the logs and the workflow status unchanged.
C16_SecondStartRefused ==
    [][(teamWorkflowStatus = RUNNING /\ startCount' # startCount) =>
           /\ status' = status
           /\ workflowLogs' = workflowLogs
           /\ teamWorkflowStatus' = teamWorkflowStatus]_vars

\* C17: addAgents and addTasks called after the workflow has started leave
\* the agents and the tasks unchanged.
C17_AddOnlyBeforeStart ==
    [][(startCount > 0 /\ addCount' # addCount) =>
           /\ agents' = agents
           /\ team' = team
           /\ status' = status]_vars

\* C18: provideFeedback on an existing task appends exactly one PENDING
\* record with the given content at the end of the task's feedbackHistory
\* and commits the task as REVISE whatever its status was, every other task
\* as it was; for an unknown id nothing of the store changes.
C18_ProvideFeedback ==
    [][feedbackCount' # feedbackCount =>
           LET t == last'.task
           IN IF t \in Tasks
              THEN /\ Len(feedbackHistory'[t]) = Len(feedbackHistory[t]) + 1
                   /\ SubSeq(feedbackHistory'[t], 1, Len(feedbackHistory[t]))
                          = feedbackHistory[t]
                   /\ feedbackHistory'[t][Len(feedbackHistory'[t])].status = PENDING
                   /\ feedbackHistory'[t][Len(feedbackHistory'[t])].content = last'.arg
                   /\ last'.obs.status[t] = REVISE
                   /\ \A u \in Tasks \ {t} :
                          /\ last'.obs.status[u] = status[u]
                          /\ feedbackHistory'[u] = feedbackHistory[u]
              ELSE UNCHANGED <<team, status, teamWorkflowStatus,
                               workflowExecutionStrategy, running, taskQueue,
                               worker, workflowLogs, workflowResult, inputs,
                               agents, feedbackHistory>>]_vars

C18_Witness ==
    /\ last.op = "feedback"
    /\ last.task \in Tasks
    /\ last.pre[last.task] = DONE
    /\ last.obs.status[last.task] = REVISE
    /\ Len(feedbackHistory[last.task]) = 2
    /\ \E u \in Tasks : last.pre[u] = DOING

\* C19: in every step of the store the feedbackHistory of a task keeps its
\* entries as a prefix, with the same content and timestamp, and no entry
\* goes from PROCESSED back to PENDING.
C19_FeedbackHistoryGrows ==
    [][\A t \in DOMAIN feedbackHistory :
           /\ t \in DOMAIN feedbackHistory'
           /\ Len(feedbackHistory'[t]) >= Len(feedbackHistory[t])
           /\ \A i \in DOMAIN feedbackHistory[t] :
                  /\ feedbackHistory'[t][i].content = feedbackHistory[t][i].content
                  /\ feedbackHistory'[t][i].timestamp = feedbackHistory[t][i].timestamp
                  /\ ~(/\ feedbackHistory[t][i].status = PROCESSED
                       /\ feedbackHistory'[t][i].status = PENDING)]_vars

C19_Witness ==
    /\ last.op \in {"feedback", "start"}
    /\ \E t \in Tasks :
          /\ Len(feedbackHistory[t]) = 2
          /\ feedbackHistory[t][1].status = PROCESSED
          /\ feedbackHistory[t][2].status = PENDING
          /\ feedbackHistory[t][1].content # feedbackHistory[t][2].content

\* C20: validateTask called with an unknown id, or for a task that is not
\* AWAITING_VALIDATION, changes neither the tasks nor workflowLogs nor
\* teamWorkflowStatus, and no completion is handled.
C20_ValidateOnlyAwaiting ==
    [][(/\ validateCount' # validateCount
        /\ \/ last'.task \notin Tasks
           \/ status[last'.task] # AWAITING_VALIDATION) =>
           UNCHANGED <<status, workflowLogs, teamWorkflowStatus, workflowResult,
                       running, taskQueue, everDone>>]_vars

C20_Witness ==
    /\ last.op = "validate"
    /\ last.task \in Tasks
    /\ last.pre[last.task] = DOING
    /\ status = last.pre
    /\ \E u \in Tasks : status[u] = AWAITING_VALIDATION

\* the entries a step appends to workflowLogs
NewLogs == SubSeq(workflowLogs', Len(workflowLogs) + 1, Len(workflowLogs'))

C22_UpdateEmitsLog ==
    [][updateCount' # updateCount =>
           Len(last'.obs.logs) > Len(workflowLogs)]_vars

\* updateTaskStatus applied to each id of the list in turn, the strategy
\* not reacting
RECURSIVE EachInTurn(_, _, _)
EachInTurn(w, ids, s) ==
    IF ids = <<>> THEN w
    ELSE EachInTurn(IF Head(ids) \in Tasks THEN CommitStatus(w, Head(ids), s) ELSE w,
                    Tail(ids), s)

\* C23: updateStatusOfMultipleTasks commits the new status of every listed
\* task at once: the store the strategy reacts to has all of them changed
\* and every other task as it was, which is also the tasks array that
\* updateTaskStatus applied to each id in turn ends with.
C23_MultipleUpdateAtomic ==
    [][(updateCount' # updateCount /\ last'.op = "updateStatusOfMultipleTasks") =>
           LET ids == last'.task
               s == last'.arg
           IN /\ last'.obs.status =
                     [t \in Tasks |-> IF t \in Listed(ids) THEN s ELSE status[t]]
              /\ last'.obs.status = StatusOf(EachInTurn(LoadWorld, ids, s))]_vars

C23_Witness ==
    /\ last.op = "updateStatusOfMultipleTasks"
    /\ last.task = <<2, 1>>
    /\ workflowExecutionStrategy # "none"
    /\ last.pre[1] # last.arg
    /\ last.pre[2] # last.arg
    /\ last.pre[1] # last.pre[2]
    /\ last.obs.status[1] = last.arg
    /\ last.obs.status[2] = last.arg

\* C24: workflowLogs is append-only: in every step of the store the log
\* list before the step is a prefix of the log list after it.
C24_LogsAppendOnly ==
    [][/\ Len(workflowLogs') >= Len(workflowLogs)
       /\ SubSeq(workflowLogs', 1, Len(workflowLogs)) = workflowLogs]_vars

\* C25: the timestamps of workflowLogs are non-decreasing in list order.
C25_LogTimestampsOrdered ==
    \A i, j \in DOMAIN workflowLogs :
        i < j => workflowLogs[i].timestamp <= workflowLogs[j].timestamp

C25_Witness ==
    /\ \E i \in DOMAIN workflowLogs :
          /\ i + 1 \in DOMAIN workflowLogs
          /\ workflowLogs[i].logType = WorkflowStatusUpdate
          /\ workflowLogs[i + 1].logType = TaskStatusUpdate
          /\ workflowLogs[i + 1].status = REVISE
          /\ workflowLogs[i].timestamp < workflowLogs[i + 1].timestamp
    /\ \E i \in DOMAIN workflowLogs :
          /\ i + 1 \in DOMAIN workflowLogs
          /\ workflowLogs[i].logType = WorkflowStatusUpdate
          /\ workflowLogs[i + 1].logType = TaskStatusUpdate
          /\ workflowLogs[i + 1].status = VALIDATED
          /\ workflowLogs[i].timestamp < workflowLogs[i + 1].timestamp
    /\ \E t \in Tasks : running[t] > 0

\* C26: when teamWorkflowStatus is FINISHED every task is DONE or VALIDATED
\* (no task of the model is ever ABORTED).
C26_FinishedAllTerminal ==
    teamWorkflowStatus = FINISHED =>
        \A t \in Tasks : status[t] \in {DONE, VALIDATED}

Deliverables == {t \in Tasks : team.isDeliverable[t]}

\* the task whose result the workflow is to deliver
Delivered ==
    IF Deliverables = {} THEN N
    ELSE CHOOSE t \in Deliverables : \A u \in Deliverables : u <= t

FinishedLogs ==
    {i \in DOMAIN workflowLogs :
        /\ workflowLogs[i].logType = WorkflowStatusUpdate
        /\ workflowLogs[i].status = FINISHED}

\* C27: when the workflow is FINISHED, workflowResult is the result of the
\* last task of tasks[] marked isDeliverable, or of the last task when no
\* task is a deliverable, and the FINISHED log entry carries the same result.
C27_ResultIsLastDeliverable ==
    /\ teamWorkflowStatus = FINISHED =>
           /\ workflowResult = Delivered
           /\ FinishedLogs # {}
    /\ \A i \in FinishedLogs : workflowLogs[i].result = Delivered

C27_Witness ==
    /\ teamWorkflowStatus = FINISHED
    /\ Cardinality(Deliverables) = 2
    /\ N \notin Deliverables
    /\ workflowResult = Delivered
    /\ workflowLogs[Len(workflowLogs)].result = Delivered

\* what getCleanedState returns for the present store in run r
Cleaned(r) == GetCleanedState(StoreState(Observe(LoadWorld), r))

AgentRedacted(a) ==
    /\ a.id = REDACTED
    /\ a.env = REDACTED
    /\ Has(a.llmConfig, "apiKey") => a.llmConfig.apiKey = REDACTED
    /\ Has(a.agentInstance, "id") => a.agentInstance.id = REDACTED
    /\ Has(a.agentInstance, "env") => a.agentInstance.env = REDACTED
    /\ Has(a.agentInstance, "llmConfig") /\ Has(a.agentInstance.llmConfig, "apiKey") =>
           a.agentInstance.llmConfig.apiKey = REDACTED

TaskRedacted(task) ==
    /\ task.id = REDACTED
    /\ task.duration = REDACTED
    /\ task.startTime = REDACTED
    /\ task.endTime = REDACTED
    /\ \A i \in DOMAIN task.feedbackHistory : task.feedbackHistory[i].timestamp = REDACTED
    /\ task.agent # Null => AgentRedacted(task.agent)

\* C28: in the value getCleanedState returns, every agent's id, env and
\* llmConfig.apiKey (of the agent and of its agentInstance), every task's id,
\* duration, startTime and endTime, every feedback timestamp and every log
\* timestamp is the sentinel, for the agents and tasks of the store and for
\* those inside tasks and logs, and the team's env is not in the output.
C28_CleanedStateRedacted ==
    \A r \in Runs :
        LET c == Cleaned(r)
        IN /\ \A i \in DOMAIN c.agents : AgentRedacted(c.agents[i])
           /\ \A i \in DOMAIN c.tasks : TaskRedacted(c.tasks[i])
           /\ \A i \in DOMAIN c.workflowLogs :
                  LET log == c.workflowLogs[i]
                  IN /\ log.timestamp = REDACTED
                     /\ log.agent # Null => AgentRedacted(log.agent)
                     /\ log.task # Null => TaskRedacted(log.task)
                     /\ log.metadata.duration = REDACTED
                     /\ log.metadata.startTime = REDACTED
                     /\ log.metadata.endTime = REDACTED
                     /\ Has(log.metadata.feedback, "timestamp") =>
                            log.metadata.feedback.timestamp = REDACTED
           /\ ~Has(c, "env")

C28_Witness ==
    /\ AddedAgent \in {agents[i] : i \in DOMAIN agents}
    /\ \E t \in Tasks : feedbackHistory[t] # <<>>
    /\ \E i \in DOMAIN workflowLogs : workflowLogs[i].task \in Tasks
    /\ \E r \in Runs :
          /\ Cleaned(r).workflowLogs[1].timestamp = REDACTED
          /\ Cleaned(r).tasks[1].agent.agentInstance.llmConfig.apiKey = REDACTED
          /\ StoreState(Observe(LoadWorld), r).tasks[1].agent.agentInstance.llmConfig.apiKey
                 = r.apiKey

\* the store of the team before its first start
InitialWorld ==
    [heap |-> [i \in 1..(N + 1) |-> IF i <= N THEN TODO ELSE STALE],
     obj |-> [t \in Tasks |-> t],
     strategy |-> "none",
     running |-> [t \in Tasks |-> 0],
     queue |-> <<>>,
     worker |-> 0,
     depsOK |-> [t \in Tasks |-> FALSE],
     logs |-> <<>>,
     tws |-> INITIAL,
     result |-> 0,
     now |-> 1,
     events |-> <<>>,
     cur |-> NoReaction,
     nextRid |-> 1]

\* the run of the team in which the executions in flight report in array order
RECURSIVE InArrayOrder(_)
InArrayOrder(w) ==
    IF \A t \in Tasks : w.running[t] = 0
    THEN w
    ELSE InArrayOrder(CompletedFrom(w,
             CHOOSE t \in Tasks : w.running[t] > 0 /\ \A u \in 1..(t - 1) : w.running[u] = 0))

ReferenceRun ==
    InArrayOrder(StartExecution(InstallStrategy(ResetWorkflowStateAction(InitialWorld))))

\* C29: a run of a team that got no feedback and has finished returns from
\* getCleanedState what the run of the same team returns in which the tasks
\* report in array order, whatever the order in which its concurrently
\* running tasks reported and whatever the ids, secrets and clock of each run.
C29_SnapshotDeterministic ==
    (teamWorkflowStatus = FINISHED /\ feedbackCount = 0) =>
        \A r1, r2 \in Runs :
            Cleaned(r1) = GetCleanedState(StoreState(Observe(ReferenceRun), r2))

\* the same for the parts of the snapshot other than the log list
SnapshotSameButLogs ==
    (teamWorkflowStatus = FINISHED /\ feedbackCount = 0) =>
        \A r1, r2 \in Runs :
            Without(Cleaned(r1), {"workflowLogs"})
                = Without(GetCleanedState(StoreState(Observe(ReferenceRun), r2)),
                          {"workflowLogs"})

(***************************************************************************)
(* StatsSpec: log lists built entry by entry under a non-decreasing clock, *)
(* and getWorkflowStats read on them.                                      *)
(***************************************************************************)
Logged(entry) ==
    /\ Len(workflowLogs) < MaxLogs
    /\ workflowLogs' = Append(workflowLogs, [entry EXCEPT !.timestamp = clock])
    /\ last' = [op |-> "log", task |-> 0, pre |-> status, arg |-> "",
                obs |-> last.obs]
    /\ UNCHANGED <<team, status, teamWorkflowStatus, workflowExecutionStrategy,
                   running, taskQueue, worker, workflowResult, inputs, agents,
                   feedbackHistory, orphaned, feedbackCount, startCount, addCount,
                   validateCount, everDone, depsDoneAtDispatch, revising, clock,
                   updateCount, events>>

\* an agent reports a status of its loop
AgentLogged(st) ==
    Logged([Log(AgentStatusUpdate, 1, DOING) EXCEPT
               !.agentStatus = st,
               !.inputTokens = IF st = THINKING_END THEN UsageIn ELSE 0,
               !.outputTokens = IF st = THINKING_END THEN UsageOut ELSE 0])

\* the workflow is set running: at the start, or again after feedback
RunningLogged == Logged(Log(WorkflowStatusUpdate, 0, RUNNING))

\* time passes
ClockAdvanced ==
    /\ clock < MaxClock
    /\ clock' = clock + 1
    /\ UNCHANGED <<team, status, teamWorkflowStatus, workflowExecutionStrategy,
                   running, taskQueue, worker, workflowLogs, workflowResult,
                   inputs, agents, feedbackHistory, orphaned, feedbackCount,
                   startCount, addCount, validateCount, everDone,
                   depsDoneAtDispatch, revising, updateCount, last, events>>

\* getWorkflowStats() is called
GetWorkflowStatsCall ==
    /\ last.op # "getWorkflowStats"
    /\ last' = [op |-> "getWorkflowStats", task |-> 0, pre |-> status,
                arg |-> GetWorkflowStats(workflowLogs, clock), obs |-> last.obs]
    /\ UNCHANGED <<team, status, teamWorkflowStatus, workflowExecutionStrategy,
                   running, taskQueue, worker, workflowLogs, workflowResult,
                   inputs, agents, feedbackHistory, orphaned, feedbackCount,
                   startCount, addCount, validateCount, everDone,
                   depsDoneAtDispatch, revising, clock, updateCount, events>>

StatsNext ==
    \/ \E st \in AgentStatuses : AgentLogged(st)
    \/ RunningLogged
    \/ ClockAdvanced
    \/ GetWorkflowStatsCall

StatsSpec == StoreInit /\ [][StatsNext]_vars

\* the agent logs with status st after the latest RUNNING entry
InRange(st) ==
    LET runs == {i \in DOMAIN workflowLogs : IsRunningLog(workflowLogs[i])}
    IN {i \in DOMAIN workflowLogs :
           /\ \A j \in runs : j < i
           /\ workflowLogs[i].logType = AgentStatusUpdate
           /\ workflowLogs[i].agentStatus = st}

\* C30: when the list has a RUNNING entry, the statistics getWorkflowStats
\* returns count the agent logs after the latest RUNNING entry and no agent
\* log before it: callsCount the THINKING_END logs, callsErrorCount the
\* THINKING_ERROR logs, parsingErrors the ISSUES_PARSING_LLM_OUTPUT logs,
\* iterationCount the ITERATION_END logs, the token sums those of the
\* THINKING_END logs.
C30_StatsSinceLatestRunning ==
    (last.op = "getWorkflowStats" /\ \E i \in DOMAIN workflowLogs : IsRunningLog(workflowLogs[i])) =>
        /\ last.arg.callsCount = Cardinality(InRange(THINKING_END))
        /\ last.arg.callsErrorCount = Cardinality(InRange(THINKING_ERROR))
        /\ last.arg.parsingErrors = Cardinality(InRange(ISSUES_PARSING_LLM_OUTPUT))
        /\ last.arg.iterationCount = Cardinality(InRange(ITERATION_END))
        /\ last.arg.inputTokens = UsageIn * Cardinality(InRange(THINKING_END))
        /\ last.arg.outputTokens = UsageOut * Cardinality(InRange(THINKING_END))

\* the same, for lists in which the entries before the latest RUNNING entry
\* are older than it
StatsWhenOlderBefore ==
    (\A i, j \in DOMAIN workflowLogs :
        (i < j /\ IsRunningLog(workflowLogs[j])) =>
            workflowLogs[i].timestamp < workflowLogs[j].timestamp) =>
        C30_StatsSinceLatestRunning

\* the _executeTask calls of the last segment
Executions == {i \in DOMAIN events : events[i].kind = "execute"}

\* C31: no _executeTask call made by a strategy's execute() changes the
\* status of a task in the store by writing into the task object: every
\* change of a task's status is made by a store commit.
C31_StatusChangesCommitted ==
    \A i \in Executions : events[i].rid > 0 => ~events[i].direct

\* the tasks of the events of one kind, in the order of the events
RECURSIVE TasksOf(_, _)
TasksOf(evs, kind) ==
    IF evs = <<>> THEN <<>>
    ELSE IF Head(evs).kind = kind
         THEN <<Head(evs).task>> \o TasksOf(Tail(evs), kind)
         ELSE TasksOf(Tail(evs), kind)

Waiting(queue) == [i \in DOMAIN queue |-> queue[i].task]

InFlight == Cardinality({t \in Tasks : running[t] > 0})

\* C32: under the sequential strategy at most one execution is in flight,
\* held by the queue's worker, and executions start in the order of the
\* pushes: the executions a step starts, followed by the tasks left waiting,
\* are the tasks that waited before the step followed by those it pushed.
C32_StrictOrderQueue ==
    [][(Sequential' /\ clock' # clock) =>
          /\ \A t \in Tasks : running'[t] <= 1
          /\ InFlight' <= 1
          /\ InFlight' = 1 => worker' # 0 /\ running'[worker'] = 1
          /\ TasksOf(events', "execute") \o Waiting(taskQueue')
                 = Waiting(taskQueue) \o TasksOf(events', "push")]_vars

C32_Witness ==
    /\ Sequential
    /\ last.op = "done"
    /\ TasksOf(events, "execute") # <<>>
    /\ taskQueue # <<>>
    /\ taskQueue[1].task # TasksOf(events, "execute")[1]
    /\ InFlight = 1

\* the _executeTask calls made by the final loop of a call of execute()
Dispatches == {i \in Executions : events[i].rid > 0 /\ events[i].dispatch}

\* C33: of two runnable tasks started by the same call of execute() of the
\* hierarchical strategy, the one with the smaller index in tasks[] is
\* started first.
C33_DispatchInDeclarationOrder ==
    Hierarchical =>
        \A i, j \in Dispatches :
            (i < j /\ events[i].rid = events[j].rid) => events[i].task < events[j].task

C33_Witness ==
    /\ Hierarchical
    /\ \E i, j \in Dispatches :
          /\ i < j
          /\ events[i].rid = events[j].rid
          /\ events[i].task < events[j].task
          /\ status[events[i].task] = DOING
          /\ status[events[j].task] = DOING

\* the ready-task filters of the last segment
Filters == {i \in DOMAIN events : events[i].kind = "ready"}

\* the tasks that are runnable when allTasks has the given statuses
Runnable(statuses) ==
    {t \in Tasks :
        /\ statuses[t] = TODO
        /\ \A d \in Tasks : d \in team.dependsOn[t] => statuses[d] = DONE}

\* C34: the filter of ready tasks yields exactly the tasks of allTasks that
\* are TODO and whose dependencies among allTasks are all DONE (a task
\* without dependsOn as soon as it is TODO), and the tasks execute()
\* dispatches in its final loop are exactly these.
C34_ReadyTasksAreRunnable ==
    \A f \in Filters :
        /\ events[f].tasks = Runnable(events[f].statuses)
        /\ {events[i].task : i \in {j \in Dispatches : events[j].rid = events[f].rid}}
               = events[f].tasks

C34_Witness ==
    \E f \in Filters :
        /\ Cardinality(events[f].tasks) = 2
        /\ \E t \in Tasks \ events[f].tasks :
              events[f].statuses[t] = TODO /\ team.dependsOn[t] # {}
        /\ \E t \in events[f].tasks : team.dependsOn[t] # {}
        /\ {events[i].task : i \in {j \in Dispatches : events[j].rid = events[f].rid}}
               = events[f].tasks

\* the DONE logs of task t
DoneLogs(t) ==
    {i \in DOMAIN workflowLogs :
        /\ workflowLogs[i].logType = TaskStatusUpdate
        /\ workflowLogs[i].status = DONE
        /\ workflowLogs[i].task = t}

LatestDoneLog(t) == CHOOSE i \in DoneLogs(t) : \A j \in DoneLogs(t) : j <= i

\* one block per task before c that has a DONE log, in declaration order,
\* each with the result of the task's latest DONE log
RECURSIVE ContextBlocks(_)
ContextBlocks(ts) ==
    IF ts = <<>> THEN <<>>
    ELSE LET t == Head(ts)
             result == ResultOf(workflowLogs[LatestDoneLog(t)])
             block == <<"Task: ", ToString(t), "\nResult: ">>
                          \o (IF result.typeof = "object"
                              THEN <<"{\"answer\":", ToString(result.answer), "}">>
                              ELSE <<result.text>>)
                          \o <<"\n">>
         IN IF Len(ts) = 1 THEN block
            ELSE block \o <<"\n">> \o ContextBlocks(Tail(ts))

\* C35: the context derived from the logs for a task is made of one block
\* per task that precedes it in tasks[] and has a DONE log, in declaration
\* order, each block carrying the result of the task's most recent DONE log,
\* an object result as its JSON text; for an id that names no task it is
\* the empty string.
C35_ContextFromDoneLogs ==
    /\ DeriveContextFromLogs(workflowLogs, UnknownId) = <<>>
    /\ \A c \in Tasks :
          DeriveContextFromLogs(workflowLogs, c)
              = ContextBlocks(InOrder({t \in 1..(c - 1) : DoneLogs(t) # {}}))

C35_Witness ==
    /\ \E t \in Tasks : t < N /\ Cardinality(DoneLogs(t)) = 2
    /\ \E t, u \in 1..(N - 1) :
          /\ t < u /\ DoneLogs(t) # {} /\ DoneLogs(u) # {}
          /\ LatestDoneLog(u) < LatestDoneLog(t)
    /\ Len(DeriveContextFromLogs(workflowLogs, N)) > 10
    /\ DeriveContextFromLogs(workflowLogs, N)[3] = "\nResult: "

\* C36: an _executeTask call made after the start of the workflow uses a
\* clone of the task's agent exactly when a task other than the one being
\* started, owned by the same agent, is DOING in the store; the task being
\* started does not make its own agent busy.
C36_CloneOnlyWhenOtherTaskDoing ==
    last.op # "start" =>
        \A i \in Executions : events[i].clone <=> events[i].otherDoing

\* C37: under the hierarchical strategy no task is dispatched while an
\* earlier execution of it is in flight, so no task has two executions in
\* flight and a task that became runnable is started by one reaction only.
C37_NoSecondDispatchInFlight ==
    Hierarchical =>
        /\ \A i \in Executions : ~events[i].inFlight
        /\ \A t \in Tasks : running[t] <= 1

\* the tasks that list t in their dependsOn
DirectDependents(t) == {d \in Tasks : t \in team.dependsOn[d]}

\* a feedback step of the hierarchical strategy on a task that is not in REVISE
ReviseReaction ==
    /\ feedbackCount' # feedbackCount
    /\ Hierarchical
    /\ last'.task \in Tasks
    /\ status[last'.task] # REVISE

\* C38 as stated: under the hierarchical strategy the reaction to a task put
\* in REVISE sets exactly the tasks that list it in their dependsOn to
\* BLOCKED, whatever their status was, leaves every other task as it was,
\* and leaves the revised task in REVISE.
C38_ReviseChangesOnlyDependents ==
    [][ReviseReaction =>
          LET t == last'.task
          IN status' = [u \in Tasks |->
                           IF u \in DirectDependents(t) THEN BLOCKED
                           ELSE IF u = t THEN REVISE
                           ELSE status[u]]]_vars

\* the tasks whose status an _executeTask call of the step changed to DOING
StartedByStep == {events'[i].task : i \in {j \in DOMAIN events' :
                     events'[j].kind = "execute" /\ events'[j].direct}}

\* C38: under the hierarchical strategy the reaction to a task put in REVISE
\* sets exactly the tasks that list it in their dependsOn to BLOCKED, whatever
\* their status was, and leaves the revised task in REVISE; of the other
\* tasks, those that the final loop of execute() finds runnable become DOING
\* and all others stay as they were.
C38_ReviseBlocksDirectDependents ==
    [][ReviseReaction =>
          LET t == last'.task
          IN status' = [u \in Tasks |->
                           IF u \in DirectDependents(t) THEN BLOCKED
                           ELSE IF u = t THEN REVISE
                           ELSE IF u \in StartedByStep THEN DOING
                           ELSE status[u]]]_vars

C38_Witness ==
    /\ Hierarchical
    /\ last.op = "feedback"
    /\ last.task \in Tasks
    /\ last.pre[last.task] = DONE
    /\ status[last.task] = REVISE
    /\ \E d, e \in DirectDependents(last.task) :
          /\ last.pre[d] = DOING /\ status[d] = BLOCKED
          /\ last.pre[e] = DONE /\ status[e] = BLOCKED
    /\ \E u \in Tasks \ (DirectDependents(last.task) \cup {last.task}) :
          status[u] = last.pre[u]

\* a step that is a call of handleChangedTasks
ChangedTasksHandled == updateCount' # updateCount /\ last'.op = "handleChangedTasks"

\* the store's state is as it was
StoreUntouched ==
    UNCHANGED <<status, teamWorkflowStatus, workflowExecutionStrategy, running,
                taskQueue, worker, workflowLogs, workflowResult, inputs, agents,
                feedbackHistory>>

\* C39: when the strategy's executeFromChangedTasks fails, handleChangedTasks
\* catches the failure and logs it at error level, its caller gets no
\* rejection, and the store is as it was; without a strategy
\* handleChangedTasks logs nothing and leaves the store as it was.
C39_StrategyFailureIsolated ==
    [][ChangedTasksHandled =>
          /\ last'.obs.promise = "fulfilled"
          /\ workflowExecutionStrategy = "none" =>
                last'.arg = "" /\ StoreUntouched
          /\ (workflowExecutionStrategy # "none" /\ ~last'.obs.implemented) =>
                last'.arg = "error" /\ StoreUntouched]_vars

C39_Witness ==
    /\ last.op = "handleChangedTasks"
    /\ workflowExecutionStrategy # "none"
    /\ ~last.obs.implemented
    /\ last.arg = "error"
    /\ \E t \in Tasks : status[t] = DOING /\ running[t] > 0

\* the positions of the WorkflowStatusUpdate entries of a log
WorkflowUpdates(logs) == {i \in DOMAIN logs : logs[i].logType = WorkflowStatusUpdate}

\* teamWorkflowStatus is the status of the latest WorkflowStatusUpdate entry
LatestWorkflowUpdateIsStatus ==
    LET updates == WorkflowUpdates(workflowLogs)
    IN updates # {} =>
          \E i \in updates :
             /\ \A j \in updates : j <= i
             /\ workflowLogs[i].status = teamWorkflowStatus

\* a step that is a call of one of the workflow-level handlers
WorkflowHandled == updateCount' # updateCount /\ last'.op \in WorkflowHandlers

\* C40: teamWorkflowStatus is the workflowStatus of the most recent
\* WorkflowStatusUpdate entry of workflowLogs, whatever operations were
\* called; handleWorkflowError, handleWorkflowBlocked, handleWorkflowAborted
\* and finishWorkflowAction each append exactly one such entry and change no
\* task's status.
C40_StatusFollowsLatestWorkflowLog ==
    /\ []LatestWorkflowUpdateIsStatus
    /\ [][WorkflowHandled =>
             /\ Len(workflowLogs') = Len(workflowLogs) + 1
             /\ SubSeq(workflowLogs', 1, Len(workflowLogs)) = workflowLogs
             /\ workflowLogs'[Len(workflowLogs')].logType = WorkflowStatusUpdate
             /\ status' = status]_vars

C40_Witness ==
    /\ last.op = "handleWorkflowAborted"
    /\ teamWorkflowStatus = STOPPED
    /\ Cardinality(WorkflowUpdates(workflowLogs)) >= 2
    /\ \E i \in DOMAIN workflowLogs : workflowLogs[i].logType = TaskStatusUpdate
    /\ \E t \in Tasks : status[t] = DOING

====
